---- MODULE Spec2Model ----
(***************************************************************************)
(* Model of the gana session orchestrator: the controller (src/app/mod.rs), *)
(* the Instance aggregate (src/session/instance.rs), the instance store     *)
(* (src/session/storage.rs), the worktree manager (src/session/git) and the *)
(* multiplexer wrapper (src/session/tmux/mod.rs), together with the part of *)
(* the outside world they act on: the tmux server, the git repository and   *)
(* the worktree directories.                                                *)
(***************************************************************************)
EXTENDS Integers, Sequences, FiniteSets, TLC

\* ------------------------------------------------------------------ bounds
\* Instances ever created in one behaviour (also bounds worktree dirs).
MaxCreates == 1
\* Messages waiting in the background channel.
MaxChan == 1
\* Background workers in flight at once.
MaxWorkers == 2
\* Length of the lists the storage round trip is tried on.
MaxStoreLen == 2
\* Characters the operator types into one text input.
MaxTyped == 1
\* Instances ever created in one behaviour of the controller taken without
\* its preview and diff polling.
MaxPairCreates == 2
\* Calls of attach_interactive in one behaviour.
MaxAttach == 2
\* Bytes the operator has typed that nothing has read yet.
MaxStdin == 2
\* Characters typed into one session title in the behaviours of the title
\* input alone.
MaxInput == 33
\* Ticks of the clock in the behaviours that follow updated_at.
MaxClock == 1
\* The largest value of the persisted flags the first startup may find.
MaxFlags == 3
\* Characters of a title handed to the branch-name sanitizer.
MaxTitleLen == 3
\* Milliseconds one capture-pane may take on top of the sleep before it.
MaxLag == 400
\* Items of the list pane in the behaviours of the list pane alone.
MaxItems == 4
\* The largest amount handed to scroll_up and scroll_down.
MaxScroll == 3

\* --------------------------------------------------------------- alphabet
\* Titles are sequences of one-character strings.
Titles == { <<"a">>, <<"A">> }
\* The printable characters the operator types into a text input; outside an
\* overlay a is the Attach key.
Chars == {"a", "A"}
Contents == { "pane" }
DiffValues == { "diff" }

\* Option<T> is a set with at most one element.
None == {}
Some(x) == {x}
IsSome(o) == o # {}
Unwrap(o) == CHOOSE x \in o : TRUE

\* ------------------------------------------------------- name sanitizers
\* char::is_alphanumeric: true of the letters and digits of every script;
\* e_acute stands for the one character U+00E9.
AlphaNumeric == {"a", "b", "A", "B", "0", "1", "e_acute"}

to_lowercase(c) == CASE c = "A" -> "a" [] c = "B" -> "b" [] OTHER -> c

RECURSIVE MapChars(_, _)
MapChars(s, i) ==
  IF i > Len(s) THEN <<>>
  ELSE <<IF s[i] \in AlphaNumeric \/ s[i] = "-" THEN s[i] ELSE "_">> \o MapChars(s, i + 1)

\* Drop every occurrence of c that directly follows another c.
RECURSIVE Collapse(_, _, _, _)
Collapse(s, c, i, prev) ==
  IF i > Len(s) THEN <<>>
  ELSE IF s[i] = c
       THEN (IF prev THEN <<>> ELSE <<c>>) \o Collapse(s, c, i + 1, TRUE)
       ELSE <<s[i]>> \o Collapse(s, c, i + 1, FALSE)

RECURSIVE TrimEnd(_, _)
TrimEnd(s, cs) ==
  IF s # <<>> /\ s[Len(s)] \in cs THEN TrimEnd(SubSeq(s, 1, Len(s) - 1), cs) ELSE s

RECURSIVE TrimStart(_, _)
TrimStart(s, cs) ==
  IF s # <<>> /\ s[1] \in cs THEN TrimStart(Tail(s), cs) ELSE s

TMUX_PREFIX == <<"league_">>

sanitize_name(name) ==
  TMUX_PREFIX \o TrimEnd(Collapse(MapChars(name, 1), "_", 1, FALSE), {"_"})

RECURSIVE FilterBranchChars(_, _)
FilterBranchChars(s, i) ==
  IF i > Len(s) THEN <<>>
  ELSE LET c == to_lowercase(s[i]) IN
       (IF c \in AlphaNumeric \/ c \in {"/", "_", ".", "-"} THEN <<c>>
        ELSE IF c = " " THEN <<"-">> ELSE <<>>) \o FilterBranchChars(s, i + 1)

\* sanitize_branch_name that trims the hyphens and then the slashes.
sanitize_branch_name_trims_in_turn(name) ==
  IF name = <<>> THEN <<>>
  ELSE LET collapsed == Collapse(FilterBranchChars(name, 1), "-", 1, FALSE)
           hyphens == TrimEnd(TrimStart(collapsed, {"-"}), {"-"})
       IN  TrimEnd(TrimStart(hyphens, {"/"}), {"/"})

sanitize_branch_name(name) ==
  IF name = <<>> THEN <<>>
  ELSE TrimEnd(TrimStart(Collapse(FilterBranchChars(name, 1), "-", 1, FALSE),
                         {"-", "/"}), {"-", "/"})

branch_prefix == <<"league/">>

\* ------------------------------------------------------------------ state
VARIABLES
  pc,                     \* where the controller process is: init, loop, exited
  running,                \* App.running
  state,                  \* App.state
  instances,              \* App.instances
  selected,               \* App.list.selected
  items,                  \* App.list.items.len()
  pending_action,         \* App.pending_action
  confirmation,           \* App.confirmation (the title shown in the message)
  help_overlay,           \* App.help_overlay (the title of the overlay)
  text_input,             \* App.text_input (present or not)
  creating_with_prompt,   \* App.creating_with_prompt
  pending_instance_title, \* App.pending_instance_title
  pending_prompts,        \* App.pending_prompts
  preview,                \* App.preview.normal_content
  diff_view,              \* App.diff_view.content
  error,                  \* App.error.message
  chan,                   \* bg_sender / bg_receiver
  workers,                \* detached worker threads in flight
  file,                   \* {config_dir}/instances.json
  sessions,               \* names of the sessions of the tmux server
  dirs,                   \* worktree directories on disk
  registered,             \* worktrees registered in the repository
  branches,               \* branches of the repository
  flags,                  \* AppState.flags in {config_dir}/state.json (0 without the file)
  nextId,                 \* instances and worktree directories created so far
  quota,                  \* sessions the operator asks for in one behaviour
  now,                    \* Utc::now(), in ticks of a clock
  active_tab,             \* App.tabbed_window.active_tab
  term,                   \* the host terminal: raw mode, alternate screen, calls
  ptmx,                   \* TmuxSession.ptmx of the session being attached
  attached,               \* TmuxSession.attached
  call,                   \* attach_interactive calls made so far
  main,                   \* where the caller of attach_interactive is
  stop_flag,              \* the calls whose stop_flag is set
  detach_rx,              \* messages waiting in the detach channel of the call
  threads,                \* the threads spawned by attach_interactive, alive
  stdin_lock,             \* the call whose forwarder holds the lock on stdin
  stdin_bytes,            \* what the operator typed and no thread has read yet
  pty_eof,                \* the PTYs whose far end is closed
  ctrl_q,                 \* the call the operator sent Ctrl-Q to after its window
  window,                 \* the first 50 ms of the call have not passed yet
  pid_file,               \* {config_dir}/daemon.pid
  procs,                  \* the process ids that are alive
  SHUTDOWN,               \* the daemon's shutdown flag
  daemon,                 \* where the daemon process is
  writing,                \* instances.json is open for writing: what is being written
  updated,                \* sessions whose pane changed since it was last looked at
  tpc,                    \* where the caller of the TmuxSession under test is
  program,                \* TmuxSession.program
  poller,                 \* which trust-prompt poll runs: start's or create_instance's
  cmds,                   \* the tmux commands and PTY starts of the call, in order
  ptys,                   \* the PTYs the call opened and has not dropped
  interval,               \* poll_interval, in milliseconds
  elapsed,                \* start.elapsed(), in milliseconds
  keys_left,              \* response keys still to send
  status_hash,            \* TmuxSession.status_hash
  seen,                   \* the content the previous has_updated captured
  normal_content,         \* PreviewPane.normal_content, a sequence of lines
  displayed,              \* PreviewPane.content, the lines displayed
  scroll_offset,          \* PreviewPane.scroll_offset
  is_scrolling,           \* PreviewPane.is_scrolling
  last                    \* the operation that produced this state

ctl == <<running, state, instances, selected, items, pending_action, confirmation, help_overlay,
         text_input, creating_with_prompt, pending_instance_title,
         pending_prompts, preview, diff_view, error>>
world == <<sessions, dirs, registered, branches, flags>>
screen == <<active_tab, term>>
attach_vars == <<ptmx, attached, call, main, stop_flag, detach_rx, threads,
                 stdin_lock, stdin_bytes, pty_eof, ctrl_q, window>>
daemon_vars == <<pid_file, procs, SHUTDOWN, daemon, writing, updated>>
tmux_vars == <<tpc, program, poller, cmds, ptys, interval, elapsed, keys_left,
               status_hash, seen>>
pane_vars == <<normal_content, displayed, scroll_offset, is_scrolling>>
side == <<quota, now, tmux_vars, pane_vars, screen, attach_vars, daemon_vars>>
vars == <<pc, ctl, chan, workers, file, world, nextId, side, last>>

\* ------------------------------------------------------- instance records
Ready == "Ready"
Running == "Running"
Loading == "Loading"
Paused == "Paused"
InstanceStatus == {Ready, Running, Loading, Paused}

\* Instance::new, with auto_yes as Config::default has it; id is the identity of the Vec element (not a field of the
\* source), kept so that an instance can be followed when indices shift.
Instance_new(title, id) ==
  [id |-> id, title |-> title, branch |-> <<>>, status |-> Ready,
   auto_yes |-> FALSE, updated_at |-> now, started |-> FALSE,
   tmux_session |-> None, git_worktree |-> None, diff_stats |-> None]

\* Instance::touch
touch(inst) == [inst EXCEPT !.updated_at = now]

\* The outside world as one value, for the operators below.
W == [sessions |-> sessions, dirs |-> dirs, registered |-> registered,
      branches |-> branches]

\* Steps of an external command that the environment can make fail.
Faults == {"none", "git_new", "git_add", "rm_dir", "prune", "commit",
           "kill_session", "new_session", "pty", "attach_pty"}

\* --------------------------------------------------------------- worktree
\* GitWorktree::new_with_config: the branch name and the unique directory.
GitWorktree_new(title, n) ==
  [dir |-> n, branch |-> branch_prefix \o sanitize_branch_name(title)]

\* git worktree prune: forget the worktrees whose directory is gone.
prune(w) == [w EXCEPT !.registered = {r \in @ : r.dir \in w.dirs}]

worktree_add(wt, w) ==
  [w EXCEPT !.dirs = @ \cup {wt.dir},
            !.branches = @ \cup {wt.branch},
            !.registered = @ \cup {[dir |-> wt.dir, branch |-> wt.branch]}]

\* setup_from_existing_branch that leaves the other worktrees of the branch.
setup_from_existing_branch_keeps_stale(wt, w, fault) ==
  LET w1 == prune([w EXCEPT !.dirs = @ \ {wt.dir}])
  IN  IF fault = "git_add" THEN [ok |-> FALSE, w |-> w1]
      ELSE [ok |-> TRUE, w |-> worktree_add(wt, w1)]

setup_from_existing_branch(wt, w, fault) ==
  LET stale == {r.dir : r \in {x \in w.registered : x.branch = wt.branch}}
      w1 == prune([w EXCEPT !.dirs = (@ \ {wt.dir}) \ stale])
  IN  IF fault = "git_add" THEN [ok |-> FALSE, w |-> w1]
      ELSE [ok |-> TRUE, w |-> worktree_add(wt, w1)]

setup_new_worktree(wt, w, fault) ==
  IF fault = "git_add" \/ wt.dir \in w.dirs THEN [ok |-> FALSE, w |-> w]
  ELSE [ok |-> TRUE, w |-> worktree_add(wt, w)]

setup(wt, w, fault) ==
  IF wt.branch \in w.branches THEN setup_from_existing_branch(wt, w, fault)
  ELSE setup_new_worktree(wt, w, fault)

\* git branch -D refuses a branch that a registered worktree has checked out,
\* whether or not that worktree's directory still exists.
branch_delete(b, w) ==
  IF \E r \in w.registered : r.branch = b THEN w
  ELSE [w EXCEPT !.branches = @ \ {b}]

cleanup(wt, w, fault) ==
  IF wt.dir \in w.dirs /\ fault = "rm_dir" THEN [ok |-> FALSE, w |-> w]
  ELSE LET w1 == branch_delete(wt.branch, [w EXCEPT !.dirs = @ \ {wt.dir}])
       IN  IF fault = "prune" THEN [ok |-> FALSE, w |-> w1]
           ELSE [ok |-> TRUE, w |-> prune(w1)]

\* remove that also deletes the branch once the worktree is pruned.
remove_and_delete_branch(wt, w, fault) ==
  IF wt.dir \in w.dirs /\ fault = "rm_dir" THEN [ok |-> FALSE, w |-> w]
  ELSE LET w1 == [w EXCEPT !.dirs = @ \ {wt.dir}]
       IN  IF fault = "prune" THEN [ok |-> FALSE, w |-> w1]
           ELSE [ok |-> TRUE, w |-> branch_delete(wt.branch, prune(w1))]

\* GitWorktree::remove: delete the directory and prune; the branch stays.
remove(wt, w, fault) ==
  IF wt.dir \in w.dirs /\ fault = "rm_dir" THEN [ok |-> FALSE, w |-> w]
  ELSE LET w1 == [w EXCEPT !.dirs = @ \ {wt.dir}]
       IN  IF fault = "prune" THEN [ok |-> FALSE, w |-> w1]
           ELSE [ok |-> TRUE, w |-> prune(w1)]

\* git status / add / commit run inside the worktree directory.
commit_changes(wt, w, fault) ==
  [ok |-> (wt.dir \in w.dirs /\ fault # "commit"), w |-> w]

\* ------------------------------------------------------------ multiplexer
TmuxSession_new(title) == [name |-> sanitize_name(title), ptmx |-> FALSE]

TmuxSession_start(t, w, fault) ==
  IF t.name \in w.sessions /\ fault = "kill_session"
  THEN [ok |-> FALSE, t |-> t, w |-> w]
  ELSE LET w1 == [w EXCEPT !.sessions = @ \ {t.name}]
       IN  IF fault = "pty" THEN [ok |-> FALSE, t |-> t, w |-> w1]
           ELSE LET w2 == [w1 EXCEPT !.sessions = @ \cup {t.name}]
                IN  IF fault = "attach_pty" THEN [ok |-> FALSE, t |-> t, w |-> w2]
                    ELSE [ok |-> TRUE, t |-> [t EXCEPT !.ptmx = TRUE], w |-> w2]

TmuxSession_restore(t, w, fault) ==
  IF t.name \notin w.sessions \/ fault = "attach_pty"
  THEN [ok |-> FALSE, t |-> t]
  ELSE [ok |-> TRUE, t |-> [t EXCEPT !.ptmx = TRUE]]

TmuxSession_close(t, w, fault) ==
  IF t.name \notin w.sessions \/ fault = "kill_session"
  THEN [ok |-> FALSE, t |-> [t EXCEPT !.ptmx = FALSE], w |-> w]
  ELSE [ok |-> TRUE, t |-> [t EXCEPT !.ptmx = FALSE],
        w |-> [w EXCEPT !.sessions = @ \ {t.name}]]

\* --------------------------------------------------------------- Instance
Instance_start(inst, first_time, w, fault) ==
  IF first_time
  THEN IF fault = "git_new" THEN [ok |-> FALSE, inst |-> inst, w |-> w]
       ELSE LET wt == GitWorktree_new(inst.title, inst.id)
                s == setup(wt, w, fault)
            IN  IF ~s.ok THEN [ok |-> FALSE, inst |-> inst, w |-> s.w]
                ELSE LET i1 == [inst EXCEPT !.branch = wt.branch]
                         r == TmuxSession_start(TmuxSession_new(inst.title), s.w, fault)
                     IN  IF ~r.ok THEN [ok |-> FALSE, inst |-> i1, w |-> r.w]
                         ELSE [ok |-> TRUE, w |-> r.w,
                               inst |-> touch([i1 EXCEPT
                                                 !.tmux_session = Some(r.t),
                                                 !.git_worktree = Some(wt),
                                                 !.status = Running,
                                                 !.started = TRUE])]
  ELSE LET r == TmuxSession_restore(TmuxSession_new(inst.title), w, fault)
       IN  IF ~r.ok THEN [ok |-> FALSE, inst |-> inst, w |-> w]
           ELSE [ok |-> TRUE, w |-> w,
                 inst |-> touch([inst EXCEPT !.tmux_session = Some(r.t),
                                             !.status = Running])]

\* Instance::kill that resets the status before the session is closed.
Instance_kill_resets_first(inst, w, fault) ==
  LET i0 == [inst EXCEPT !.status = Ready, !.started = FALSE]
      c == IF IsSome(inst.tmux_session)
           THEN TmuxSession_close(Unwrap(inst.tmux_session), w, fault)
           ELSE [ok |-> TRUE, t |-> TmuxSession_new(inst.title), w |-> w]
  IN  IF ~c.ok THEN [ok |-> FALSE, w |-> c.w,
                     inst |-> [i0 EXCEPT !.tmux_session = Some(c.t)]]
      ELSE LET i1 == [i0 EXCEPT !.tmux_session = None]
               g == IF IsSome(inst.git_worktree)
                    THEN cleanup(Unwrap(inst.git_worktree), c.w, fault)
                    ELSE [ok |-> TRUE, w |-> c.w]
           IN  IF ~g.ok THEN [ok |-> FALSE, inst |-> i1, w |-> g.w]
               ELSE [ok |-> TRUE, w |-> g.w,
                     inst |-> touch([i1 EXCEPT !.git_worktree = None])]

Instance_kill(inst, w, fault) ==
  LET c == IF IsSome(inst.tmux_session)
           THEN TmuxSession_close(Unwrap(inst.tmux_session), w, fault)
           ELSE [ok |-> TRUE, t |-> TmuxSession_new(inst.title), w |-> w]
  IN  IF ~c.ok THEN [ok |-> FALSE, w |-> c.w,
                     inst |-> [inst EXCEPT !.tmux_session = Some(c.t)]]
      ELSE LET i1 == [inst EXCEPT !.tmux_session = None]
               g == IF IsSome(inst.git_worktree)
                    THEN cleanup(Unwrap(inst.git_worktree), c.w, fault)
                    ELSE [ok |-> TRUE, w |-> c.w]
           IN  IF ~g.ok THEN [ok |-> FALSE, inst |-> i1, w |-> g.w]
               ELSE [ok |-> TRUE, w |-> g.w,
                     inst |-> touch([i1 EXCEPT !.git_worktree = None,
                                               !.status = Ready,
                                               !.started = FALSE])]

Instance_pause(inst, w, fault) ==
  LET g == IF IsSome(inst.git_worktree)
           THEN LET wt == Unwrap(inst.git_worktree)
                    cm == commit_changes(wt, w, fault)
                IN  IF ~cm.ok THEN cm ELSE remove(wt, cm.w, fault)
           ELSE [ok |-> TRUE, w |-> w]
  IN  IF ~g.ok THEN [ok |-> FALSE, inst |-> inst, w |-> g.w]
      ELSE LET c == IF IsSome(inst.tmux_session)
                    THEN TmuxSession_close(Unwrap(inst.tmux_session), g.w, fault)
                    ELSE [ok |-> TRUE, t |-> TmuxSession_new(inst.title), w |-> g.w]
           IN  IF ~c.ok THEN [ok |-> FALSE, w |-> c.w,
                              inst |-> [inst EXCEPT !.tmux_session = Some(c.t)]]
               ELSE [ok |-> TRUE, w |-> c.w,
                     inst |-> touch([inst EXCEPT !.tmux_session = None,
                                                 !.status = Paused])]

Instance_resume(inst, w, fault) ==
  IF IsSome(inst.git_worktree)
  THEN LET wt == Unwrap(inst.git_worktree)
           s == setup(wt, w, fault)
       IN  IF ~s.ok THEN [ok |-> FALSE, inst |-> inst, w |-> s.w]
           ELSE LET r == TmuxSession_start(TmuxSession_new(inst.title), s.w, fault)
                IN  IF ~r.ok THEN [ok |-> FALSE, inst |-> inst, w |-> r.w]
                    ELSE [ok |-> TRUE, w |-> r.w,
                          inst |-> touch([inst EXCEPT
                                            !.tmux_session = Some(r.t),
                                            !.status = Running])]
  ELSE [ok |-> TRUE, w |-> w, inst |-> touch([inst EXCEPT !.status = Running])]

\* Instance::restore_session (called by the controller; its body is not in
\* the sources): reconnect to the existing multiplexer session and mark the
\* instance started; on failure the instance is left as it was.
restore_session(inst, w, fault) ==
  LET r == TmuxSession_restore(TmuxSession_new(inst.title), w, fault)
  IN  IF ~r.ok THEN [ok |-> FALSE, inst |-> inst]
      ELSE [ok |-> TRUE,
            inst |-> [inst EXCEPT !.tmux_session = Some(r.t), !.started = TRUE]]

\* Instance::send_prompt: the text and Enter go to the session of the handle,
\* and nowhere without a handle. The result is the set of prompts delivered,
\* each named by the instance it was meant for.
Instance_send_prompt(inst, prompt) ==
  IF IsSome(inst.tmux_session) THEN {prompt.owner} ELSE {}

\* ---------------------------------------------------------------- storage
StatusToJson(st) ==
  CASE st = Ready -> "ready" [] st = Running -> "running"
    [] st = Loading -> "loading" [] st = Paused -> "paused"

StatusFromJson(s) ==
  CASE s = "ready" -> Ready [] s = "running" -> Running
    [] s = "loading" -> Loading [] s = "paused" -> Paused

\* serde: the runtime-only fields are skipped.
ToJson(inst) ==
  [id |-> inst.id, title |-> inst.title, branch |-> inst.branch,
   status |-> StatusToJson(inst.status), auto_yes |-> inst.auto_yes,
   updated_at |-> inst.updated_at, started |-> inst.started]

FromJson(j) ==
  [id |-> j.id, title |-> j.title, branch |-> j.branch,
   status |-> StatusFromJson(j.status), auto_yes |-> j.auto_yes,
   updated_at |-> j.updated_at, started |-> j.started, tmux_session |-> None, git_worktree |-> None,
   diff_stats |-> None]

\* The filter with its test inverted.
RECURSIVE FilterUnstarted(_)
FilterUnstarted(list) ==
  IF list = <<>> THEN <<>>
  ELSE (IF Head(list).started THEN <<>> ELSE <<Head(list)>>)
       \o FilterUnstarted(Tail(list))

RECURSIVE FilterStarted(_)
FilterStarted(list) ==
  IF list = <<>> THEN <<>>
  ELSE (IF Head(list).started THEN <<Head(list)>> ELSE <<>>) \o FilterStarted(Tail(list))

\* save_instances without the filter on started.
save_instances_unfiltered(list) ==
  Some([k \in 1..Len(list) |-> ToJson(list[k])])

\* FileStorage::save_instances: the new contents of instances.json.
save_instances(list) ==
  LET started == FilterStarted(list)
  IN  Some([k \in 1..Len(started) |-> ToJson(started[k])])

\* FileStorage::load_instances
load_instances(f) ==
  IF f = None THEN <<>>
  ELSE LET js == Unwrap(f) IN [k \in 1..Len(js) |-> FromJson(js[k])]

\* ------------------------------------------------------------- controller
Default == "Default"
TextInput == "TextInput"
Confirm == "Confirm"
Help == "Help"

NoPrompts == [k \in {} |-> ""]

\* ---------------------------------------------------------------- overlays
\* A key event: its KeyCode, and the character of a KeyCode::Char.
Key(code, c) == [code |-> code, c |-> c]

\* if self.input.len() < 64
InputLimit == 64

TextInputOverlay_new(title) ==
  [title |-> title, input |-> <<>>, cursor_pos |-> 0, submitted |-> FALSE,
   cancelled |-> FALSE]

\* String::insert and String::remove at a position counted from 0.
Insert(s, pos, c) == SubSeq(s, 1, pos) \o <<c>> \o SubSeq(s, pos + 1, Len(s))

Remove(s, pos) == SubSeq(s, 1, pos) \o SubSeq(s, pos + 2, Len(s))

TextInputOverlay_drops_chars(o, key) ==
  CASE key.code = "Enter" -> [o EXCEPT !.submitted = TRUE]
    [] key.code = "Esc" -> [o EXCEPT !.cancelled = TRUE]
    [] OTHER -> o

TextInputOverlay_handle_key(o, key) ==
  CASE key.code = "Enter" -> [o EXCEPT !.submitted = TRUE]
    [] key.code = "Esc" -> [o EXCEPT !.cancelled = TRUE]
    [] key.code = "Char" ->
         IF Len(o.input) < InputLimit
         THEN [o EXCEPT !.input = Insert(@, o.cursor_pos, key.c),
                        !.cursor_pos = @ + 1]
         ELSE o
    [] key.code = "Backspace" ->
         IF o.cursor_pos > 0
         THEN [o EXCEPT !.cursor_pos = @ - 1,
                        !.input = Remove(@, o.cursor_pos - 1)]
         ELSE o
    [] key.code = "Left" ->
         IF o.cursor_pos > 0 THEN [o EXCEPT !.cursor_pos = @ - 1] ELSE o
    [] key.code = "Right" ->
         IF o.cursor_pos < Len(o.input) THEN [o EXCEPT !.cursor_pos = @ + 1]
         ELSE o
    [] OTHER -> o

ConfirmationOverlay_new == [dismissed |-> FALSE, confirmed |-> FALSE]

ConfirmationOverlay_n_confirms(o, key) ==
  CASE key.code = "Char" /\ key.c \in {"y", "Y", "n", "N"} ->
         [o EXCEPT !.confirmed = TRUE, !.dismissed = TRUE]
    [] key.code = "Esc" -> [o EXCEPT !.confirmed = FALSE, !.dismissed = TRUE]
    [] OTHER -> o

ConfirmationOverlay_handle_key(o, key) ==
  CASE key.code = "Char" /\ key.c \in {"y", "Y"} ->
         [o EXCEPT !.confirmed = TRUE, !.dismissed = TRUE]
    [] (key.code = "Char" /\ key.c \in {"n", "N"}) \/ key.code = "Esc" ->
         [o EXCEPT !.confirmed = FALSE, !.dismissed = TRUE]
    [] OTHER -> o

\* TextOverlay::handle_key of the help overlay: is the overlay dismissed.
TextOverlay_handle_key(key) ==
  key.code \in {"Esc", "Enter"} \/ (key.code = "Char" /\ key.c = "q")

\* The keys tried on the overlays.
EditKeys == {Key("Backspace", ""), Key("Left", ""), Key("Right", ""),
             Key("Tab", "")}
OverlayKeys ==
  {Key("Char", c) : c \in Chars \cup {"y", "Y", "n", "N", "q", "c"}}
  \cup {Key("Esc", ""), Key("Enter", ""), Key("Tab", ""), Key("Up", "")}

RemoveAt(list, k) ==
  [j \in 1..(Len(list) - 1) |-> IF j < k THEN list[j] ELSE list[j + 1]]

Without(f, k) == [j \in (DOMAIN f) \ {k} |-> f[j]]

With(f, k, v) == [j \in (DOMAIN f) \cup {k} |-> IF j = k THEN v ELSE f[j]]

\* ListPane::set_items without the clamp.
set_items_keeps_selection(sel, n) == sel

\* ListPane::set_items: the selection after the list has n items.
set_items(sel, n) == IF n > 0 /\ sel >= n THEN n - 1 ELSE sel

\* ListPane::select_next
select_next(sel, n) == IF n = 0 THEN sel ELSE (sel + 1) % n

\* ListPane::select_previous
select_previous(sel, n) ==
  IF n = 0 THEN sel ELSE IF sel = 0 THEN n - 1 ELSE sel - 1

\* ListPane::set_selected
set_selected(sel, n, idx) ==
  IF n # 0 THEN (IF idx < n - 1 THEN idx ELSE n - 1) ELSE sel

Msg(type, idx, content, wt, src) ==
  [type |-> type, idx |-> idx, content |-> content, wt |-> wt, src |-> src]

\* The operation that produced a state: its name, the index it addressed, the
\* instance found there before it ran (None when there was none), its outcome.
Op(op, idx, pre, ok, aux) ==
  [op |-> op, idx |-> idx, pre |-> pre, ok |-> ok, aux |-> aux]

SetWorld(w) ==
  /\ sessions' = w.sessions
  /\ dirs' = w.dirs
  /\ registered' = w.registered
  /\ branches' = w.branches
  /\ UNCHANGED flags

\* App::refresh_list
refresh_list ==
  /\ items' = Len(instances')
  /\ selected' = set_items(selected, Len(instances'))

\* App::save_instances
App_save_instances == file' = save_instances(instances')

overlays == <<state, pending_action, confirmation, help_overlay, text_input,
              creating_with_prompt, pending_instance_title>>
views == <<preview, diff_view>>

\* The terminal as app::run hands it to App::run, and the Preview tab.
InitScreen ==
  /\ active_tab = "Preview"
  /\ term = [raw |-> TRUE, alt |-> TRUE, cleared |-> TRUE, log |-> <<>>]

\* No session is being attached.
InitAttachIdle ==
  /\ ptmx = None
  /\ attached = FALSE
  /\ call = 0
  /\ main = "idle"
  /\ stop_flag = {}
  /\ detach_rx = 0
  /\ threads = {}
  /\ stdin_lock = 0
  /\ stdin_bytes = <<>>
  /\ pty_eof = {}
  /\ ctrl_q = 0
  /\ window = FALSE

\* PreviewPane::new
PreviewPane_new ==
  /\ normal_content = <<>>
  /\ displayed = <<>>
  /\ scroll_offset = 0
  /\ is_scrolling = FALSE

\* No TmuxSession is under test.
InitTmuxOff ==
  /\ tpc = "off"
  /\ program = "claude"
  /\ poller = "start"
  /\ cmds = <<>>
  /\ ptys = {}
  /\ interval = 0
  /\ elapsed = 0
  /\ keys_left = <<>>
  /\ status_hash = <<>>
  /\ seen = None

\* No daemon has been started.
InitDaemonOff ==
  /\ pid_file = None
  /\ procs = {}
  /\ SHUTDOWN = FALSE
  /\ daemon = "off"
  /\ writing = None
  /\ updated = {}

InitController(q) ==
  /\ pc = "init"
  /\ running = TRUE
  /\ state = Default
  /\ instances = <<>>
  /\ selected = 0
  /\ items = 0
  /\ pending_action = None
  /\ confirmation = None
  /\ help_overlay = None
  /\ text_input = None
  /\ creating_with_prompt = FALSE
  /\ pending_instance_title = None
  /\ pending_prompts = NoPrompts
  /\ preview = ""
  /\ diff_view = ""
  /\ error = None
  /\ chan = <<>>
  /\ workers = {}
  /\ file = None
  /\ sessions = {}
  /\ dirs = {}
  /\ registered = {}
  /\ branches = {}
  /\ nextId = 0
  /\ quota = q
  /\ now = 0
  /\ InitTmuxOff
  /\ PreviewPane_new
  /\ InitScreen
  /\ InitAttachIdle
  /\ InitDaemonOff
  /\ last = Op("new", -1, None, TRUE, {})

Init == InitController(MaxCreates) /\ flags = 0

\* restore_loaded without the reset of started.
restore_loaded_keeps_started(inst, w, fault) ==
  IF inst.status = Running
  THEN LET r == restore_session(inst, w, fault)
       IN  IF r.ok THEN r.inst ELSE [inst EXCEPT !.status = Ready]
  ELSE inst

\* App::restore_loaded_instances on one loaded instance.
restore_loaded(inst, w, fault) ==
  IF inst.status = Running
  THEN LET r == restore_session(inst, w, fault)
       IN  IF r.ok THEN r.inst
           ELSE [inst EXCEPT !.status = Ready, !.started = FALSE]
  ELSE inst

\* Bitwise and, bitwise or on naturals (u32 & u32, u32 | u32).
RECURSIVE BitAnd(_, _)
BitAnd(x, y) ==
  IF x = 0 \/ y = 0 THEN 0
  ELSE (IF x % 2 = 1 /\ y % 2 = 1 THEN 1 ELSE 0) + 2 * BitAnd(x \div 2, y \div 2)

RECURSIVE BitOr(_, _)
BitOr(x, y) ==
  IF x = 0 THEN y
  ELSE IF y = 0 THEN x
  ELSE (IF x % 2 = 1 \/ y % 2 = 1 THEN 1 ELSE 0) + 2 * BitOr(x \div 2, y \div 2)

\* pub const FLAG_HELP_SEEN: u32 = 1 << 0
FLAG_HELP_SEEN == 1

\* AppState::has_flag
has_flag(fl, flag) == BitAnd(fl, flag) # 0

\* AppState::set_flag that forgets the other bits.
set_flag_overwrites(fl, flag) == flag

\* AppState::set_flag
set_flag(fl, flag) == BitOr(fl, flag)

\* AppState::load: the flags of state.json, the default when it is missing.
AppState_load == flags

\* App::run up to the event loop: load_instances, restore_loaded_instances,
\* the fallback art, the help overlay of the first run.
run_startup ==
  /\ pc = "init"
  /\ LET loaded == load_instances(file) IN
     \E F \in SUBSET (1..Len(loaded)) :
       /\ instances' = [k \in 1..Len(loaded) |->
             restore_loaded(loaded[k], W, IF k \in F THEN "attach_pty" ELSE "none")]
       /\ last' = Op("run_startup", -1, None, TRUE,
             {k \in 1..Len(loaded) :
                /\ loaded[k].status = Running
                /\ ~restore_session(loaded[k], W,
                       IF k \in F THEN "attach_pty" ELSE "none").ok})
  /\ refresh_list
  /\ preview' = "fallback"
  /\ LET persistent_state == AppState_load IN
       IF ~has_flag(persistent_state, FLAG_HELP_SEEN)
       THEN /\ state' = Help
            /\ help_overlay' = Some("Welcome")
            /\ flags' = set_flag(persistent_state, FLAG_HELP_SEEN)
       ELSE UNCHANGED <<state, help_overlay, flags>>
  /\ pc' = "loop"
  /\ UNCHANGED <<running, pending_action, confirmation, text_input,
                 creating_with_prompt, pending_instance_title, pending_prompts,
                 diff_view, error, chan, workers, file, sessions, dirs,
                 registered, branches, nextId, side>>

\* The process is started again: App::new.
Launch ==
  /\ pc = "exited"
  /\ pc' = "init"
  /\ running' = TRUE
  /\ state' = Default
  /\ instances' = <<>>
  /\ selected' = 0
  /\ items' = 0
  /\ pending_action' = None
  /\ confirmation' = None
  /\ help_overlay' = None
  /\ text_input' = None
  /\ creating_with_prompt' = FALSE
  /\ pending_instance_title' = None
  /\ pending_prompts' = NoPrompts
  /\ preview' = ""
  /\ diff_view' = ""
  /\ error' = None
  /\ active_tab' = "Preview"
  /\ term' = [raw |-> TRUE, alt |-> TRUE, cleared |-> TRUE, log |-> <<>>]
  /\ last' = Op("new", -1, None, TRUE, {})
  /\ UNCHANGED <<chan, workers, file, world, nextId, quota, now, tmux_vars, pane_vars, attach_vars,
                 daemon_vars>>

InLoop == pc = "loop"
InDefault == pc = "loop" /\ state = Default

\* KeyAction::Up / Down
KeyUp ==
  /\ InDefault
  /\ selected' = select_previous(selected, items)
  /\ last' = Op("key", -1, None, TRUE, {})
  /\ UNCHANGED <<pc, running, overlays, instances, items, pending_prompts, views,
                 error, chan, workers, file, world, nextId, side>>

KeyDown ==
  /\ InDefault
  /\ selected' = select_next(selected, items)
  /\ last' = Op("key", -1, None, TRUE, {})
  /\ UNCHANGED <<pc, running, overlays, instances, items, pending_prompts, views,
                 error, chan, workers, file, world, nextId, side>>

\* KeyAction::New / Prompt
KeyNew ==
  /\ InDefault
  /\ state' = TextInput
  /\ text_input' = Some(TextInputOverlay_new("New Session"))
  /\ creating_with_prompt' = FALSE
  /\ last' = Op("key", -1, None, TRUE, {})
  /\ UNCHANGED <<pc, running, instances, selected, items, pending_action,
                 confirmation, help_overlay, pending_instance_title, pending_prompts, views,
                 error, chan, workers, file, world, nextId, side>>

KeyPrompt ==
  /\ InDefault
  /\ state' = TextInput
  /\ text_input' = Some(TextInputOverlay_new("New Session (with prompt)"))
  /\ creating_with_prompt' = TRUE
  /\ last' = Op("key", -1, None, TRUE, {})
  /\ UNCHANGED <<pc, running, instances, selected, items, pending_action,
                 confirmation, help_overlay, pending_instance_title, pending_prompts, views,
                 error, chan, workers, file, world, nextId, side>>

\* KeyAction::Tab: TabbedWindow::switch_tab.
switch_tab(tab) == IF tab = "Preview" THEN "Diff" ELSE "Preview"

KeyTab ==
  /\ InDefault
  /\ active_tab' = switch_tab(active_tab)
  /\ last' = Op("key", -1, None, TRUE, {})
  /\ UNCHANGED <<pc, ctl, chan, workers, file, world, nextId, quota, now, tmux_vars, pane_vars, term,
                 attach_vars, daemon_vars>>

\* ------------------------------------------------------------ the terminal
\* Each call on the host terminal is logged with the modes it found; the
\* log of one AttachSession is kept with the operation, not in the terminal.
Unlogged(t) == [t EXCEPT !.log = <<>>]

Logged(t, name) ==
  [t EXCEPT !.log = Append(@, [call |-> name, raw |-> t.raw, alt |-> t.alt])]

disable_raw_mode(t) == [Logged(t, "disable_raw_mode") EXCEPT !.raw = FALSE]

enable_raw_mode(t) == [Logged(t, "enable_raw_mode") EXCEPT !.raw = TRUE]

LeaveAlternateScreen(t) ==
  [Logged(t, "LeaveAlternateScreen") EXCEPT !.alt = FALSE, !.cleared = FALSE]

EnterAlternateScreen(t) ==
  [Logged(t, "EnterAlternateScreen") EXCEPT !.alt = TRUE, !.cleared = FALSE]

terminal_clear(t) == [Logged(t, "clear") EXCEPT !.cleared = TRUE]

\* crossterm::terminal::size(), then tmux.set_size and tmux.resize_pty with
\* that size; both are skipped when the size cannot be read or the instance
\* has no handle.
push_size(t, inst, size_ok) ==
  LET t1 == Logged(t, IF size_ok THEN "size" ELSE "size_err")
  IN  IF size_ok /\ IsSome(inst.tmux_session) THEN Logged(t1, "set_size")
      ELSE t1

\* Instance::attach (its body is not in the sources): attach_interactive on
\* the handle, an error without one; when the fresh monitoring PTY cannot be
\* opened on the way back the handle is left without PTY.
Instance_attach(inst, fault) ==
  IF inst.tmux_session = None \/ ~Unwrap(inst.tmux_session).ptmx
  THEN [ok |-> FALSE, inst |-> inst]
  ELSE IF fault = "pty"
       THEN [ok |-> FALSE,
             inst |-> [inst EXCEPT !.tmux_session =
                         Some([Unwrap(inst.tmux_session) EXCEPT !.ptmx = FALSE])]]
       ELSE [ok |-> TRUE, inst |-> inst]

before_attach_in_alt(t, inst, size_ok) ==
  enable_raw_mode(push_size(disable_raw_mode(t), inst, size_ok))

\* The terminal up to the call of attach: steps 1 to 3 of App::run.
before_attach(t, inst, size_ok) ==
  enable_raw_mode(push_size(LeaveAlternateScreen(disable_raw_mode(t)),
                            inst, size_ok))

\* The terminal from the return of attach to the next frame.
after_attach(t) ==
  terminal_clear(EnterAlternateScreen(enable_raw_mode(disable_raw_mode(t))))

\* KeyAction::Enter / Attach and the AttachSession arm of App::run. A call on
\* the terminal that fails ends App::run with the error, without the save.
KeyAttach ==
  /\ InDefault
  /\ instances # <<>>
  /\ selected < Len(instances)
  /\ \E fault \in {"none", "pty", "leave_alt", "enter_alt"} :
     \E size_ok \in BOOLEAN :
       LET idx == selected
           inst == instances[idx + 1]
           t0 == [term EXCEPT !.log = <<>>]
       IN  IF fault = "leave_alt"
           THEN LET t1 == Logged(disable_raw_mode(t0), "LeaveAlternateScreen")
                IN  /\ term' = Unlogged(t1)
                    /\ last' = Op("attach", idx, Some(inst), FALSE, t1.log)
                /\ pc' = "exited"
                /\ chan' = <<>>
                /\ workers' = {}
                /\ UNCHANGED <<instances, error>>
           ELSE LET t1 == Logged(before_attach(t0, inst, size_ok), "attach")
                    r == Instance_attach(inst, fault)
                IN  /\ instances' = [instances EXCEPT ![idx + 1] = r.inst]
                    /\ IF fault = "enter_alt"
                       THEN LET t2 == Logged(enable_raw_mode(disable_raw_mode(t1)),
                                             "EnterAlternateScreen")
                            IN  /\ term' = Unlogged(t2)
                                /\ last' = Op("attach", idx, Some(inst), FALSE,
                                              t2.log)
                                /\ pc' = "exited"
                                /\ chan' = <<>>
                                /\ workers' = {}
                                /\ UNCHANGED error
                       ELSE /\ term' = Unlogged(after_attach(t1))
                            /\ error' = IF r.ok THEN error
                                        ELSE Some("Failed to attach")
                            /\ last' = Op("attach", idx, Some(inst), r.ok,
                                          after_attach(t1).log)
                            /\ UNCHANGED <<pc, chan, workers>>
  /\ UNCHANGED <<running, state, selected, items, pending_action, confirmation, help_overlay,
                 text_input, creating_with_prompt, pending_instance_title,
                 pending_prompts, views, file, world, nextId, quota, now, tmux_vars, pane_vars, active_tab,
                 attach_vars, daemon_vars>>

\* KeyAction::Help
KeyHelp ==
  /\ InDefault
  /\ state' = Help
  /\ help_overlay' = Some("Help")
  /\ last' = Op("key", -1, None, TRUE, {})
  /\ UNCHANGED <<pc, running, instances, selected, items, pending_action,
                 confirmation, text_input, creating_with_prompt,
                 pending_instance_title, pending_prompts, views, error, chan,
                 workers, file, world, nextId, side>>

\* handle_help_key that leaves the overlay in place when it is dismissed.
HelpDismiss_keeps_overlay ==
  /\ pc = "loop" /\ state = Help /\ IsSome(help_overlay)
  /\ \E key \in OverlayKeys :
       /\ TextOverlay_handle_key(key)
       /\ last' = Op("key", -1, None, TRUE, {})
  /\ state' = Default
  /\ UNCHANGED <<pc, running, instances, selected, items, pending_action,
                 confirmation, help_overlay, text_input, creating_with_prompt,
                 pending_instance_title, pending_prompts, views, error, chan,
                 workers, file, world, nextId, side>>

\* App::handle_help_key: Esc, q or Enter dismisses the overlay; any other
\* key is ignored, and so is every key when there is no overlay.
HelpDismiss ==
  /\ pc = "loop" /\ state = Help /\ IsSome(help_overlay)
  /\ \E key \in OverlayKeys :
       /\ TextOverlay_handle_key(key)
       /\ last' = Op("key", -1, None, TRUE, {})
  /\ help_overlay' = None
  /\ state' = Default
  /\ UNCHANGED <<pc, running, instances, selected, items, pending_action,
                 confirmation, text_input, creating_with_prompt,
                 pending_instance_title, pending_prompts, views, error, chan,
                 workers, file, world, nextId, side>>

HelpOther ==
  /\ pc = "loop" /\ state = Help
  /\ \E key \in OverlayKeys :
       /\ help_overlay = None \/ ~TextOverlay_handle_key(key)
       /\ last' = Op("key", -1, None, TRUE, {})
  /\ UNCHANGED <<pc, ctl, chan, workers, file, world, nextId, side>>

\* KeyAction::Delete / Kill / Push: open the confirmation.
OpenConfirm(kind, idx) ==
  /\ confirmation' = Some(instances[idx + 1].title)
  /\ pending_action' = Some([kind |-> kind, idx |-> idx])
  /\ state' = Confirm
  /\ last' = Op("key", -1, None, TRUE, {})
  /\ UNCHANGED <<pc, running, instances, selected, items, help_overlay, text_input,
                 creating_with_prompt, pending_instance_title, pending_prompts,
                 views, error, chan, workers, file, world, nextId, side>>

KeyDelete ==
  /\ InDefault
  /\ instances # <<>>
  /\ OpenConfirm("DeleteSession", selected)

KeyKill ==
  /\ InDefault
  /\ instances # <<>>
  /\ OpenConfirm("KillSession", selected)

KeyPush ==
  /\ InDefault
  /\ instances # <<>>
  /\ instances[selected + 1].status = Running
  /\ OpenConfirm("PushSession", selected)

\* KeyAction::Pause: toggle Running <-> Paused on the selected instance.
KeyPause ==
  /\ InDefault
  /\ instances # <<>>
  /\ \E fault \in {"none", "pty", "commit"} :
       LET idx == selected
           inst == instances[idx + 1]
           r == IF inst.status = Paused THEN Instance_resume(inst, W, fault)
                ELSE IF inst.status = Running THEN Instance_pause(inst, W, fault)
                ELSE [ok |-> TRUE, inst |-> inst, w |-> W]
       IN  /\ instances' = [instances EXCEPT ![idx + 1] = r.inst]
           /\ SetWorld(r.w)
           /\ error' = IF r.ok THEN error
                       ELSE IF inst.status = Paused THEN Some("Resume failed")
                       ELSE Some("Pause failed")
           /\ last' = Op(IF inst.status = Paused THEN "resume"
                         ELSE IF inst.status = Running THEN "pause" ELSE "Pause",
                         idx, Some(inst), r.ok, {})
  /\ refresh_list
  /\ App_save_instances
  /\ UNCHANGED <<pc, running, overlays, pending_prompts, views, chan, workers,
                 nextId, side>>

\* KeyAction::Quit, then the loop ends and App::run saves; the detached
\* workers and the channel go away with the process.
KeyQuit ==
  /\ InDefault
  /\ running' = FALSE
  /\ UNCHANGED instances
  /\ App_save_instances
  /\ pc' = "exited"
  /\ chan' = <<>>
  /\ workers' = {}
  /\ term' = [term EXCEPT !.raw = FALSE, !.alt = FALSE]
  /\ last' = Op("Quit", -1, None, TRUE, {})
  /\ UNCHANGED <<overlays, selected, items, pending_prompts, views, error,
                 world, nextId, quota, now, tmux_vars, pane_vars, active_tab, attach_vars, daemon_vars>>

Worker(kind, idx, title, wt, src) ==
  [kind |-> kind, idx |-> idx, title |-> title, wt |-> wt, src |-> src]

\* App::create_instance: the Loading placeholder and the creation worker.
create_instance(title) ==
  /\ nextId < quota
  /\ UNCHANGED side
  /\ Cardinality(workers) < MaxWorkers
  /\ instances' = Append(instances,
        [Instance_new(title, nextId + 1) EXCEPT !.status = Loading])
  /\ refresh_list
  /\ workers' = workers \cup
        {Worker("create", Len(instances), title, None, nextId + 1)}
  /\ nextId' = nextId + 1
  /\ last' = Op("create", Len(instances), None, TRUE, {})

\* App::handle_text_input_key on a key that edits the input: a character is
\* inserted at the cursor.
InText == pc = "loop" /\ state = TextInput /\ IsSome(text_input)

TextChar ==
  /\ InText
  /\ Len(Unwrap(text_input).input) < MaxTyped
  /\ \E c \in Chars :
       /\ text_input' =
            Some(TextInputOverlay_handle_key(Unwrap(text_input), Key("Char", c)))
       /\ last' = Op("char", -1, None, TRUE, {})
  /\ UNCHANGED <<pc, running, state, instances, selected, items, pending_action,
                 confirmation, help_overlay, creating_with_prompt, pending_instance_title,
                 pending_prompts, views, error, chan, workers, file, world,
                 nextId, side>>

\* Backspace, Left, Right, and a key the overlay does not handle.
TextEdit ==
  /\ InText
  /\ \E key \in EditKeys :
       /\ text_input' = Some(TextInputOverlay_handle_key(Unwrap(text_input), key))
       /\ last' = Op("key", -1, None, TRUE, {})
  /\ UNCHANGED <<pc, running, state, instances, selected, items, pending_action,
                 confirmation, help_overlay, creating_with_prompt, pending_instance_title,
                 pending_prompts, views, error, chan, workers, file, world,
                 nextId, side>>

\* The text of the input once Enter has been handled by the overlay.
Submitted ==
  LET o == TextInputOverlay_handle_key(Unwrap(text_input), Key("Enter", ""))
  IN  IF o.submitted THEN Some(o.input) ELSE None

\* App::handle_text_input_key, Enter in the plain new-session input.
TextSubmitNew ==
  /\ InText
  /\ ~creating_with_prompt
  /\ IsSome(Submitted)
  /\ LET text == Unwrap(Submitted) IN
       /\ text_input' = None
       /\ state' = Default
       /\ IF text # <<>>
          THEN create_instance(text)
          ELSE /\ last' = Op("key", -1, None, TRUE, {})
               /\ UNCHANGED <<instances, selected, items, workers, nextId, side>>
  /\ UNCHANGED <<pc, running, pending_action, confirmation, help_overlay, creating_with_prompt,
                 pending_instance_title, pending_prompts, views, error, chan,
                 file, world>>

\* Enter in the title input that takes an empty title for a title.
TextSubmitPromptTitle_takes_empty ==
  /\ InText
  /\ creating_with_prompt /\ pending_instance_title = None
  /\ IsSome(Submitted)
  /\ pending_instance_title' = Some(Unwrap(Submitted))
  /\ text_input' = Some(TextInputOverlay_new("Enter prompt"))
  /\ last' = Op("key", -1, None, TRUE, {})
  /\ UNCHANGED <<state, creating_with_prompt>>
  /\ UNCHANGED <<pc, running, instances, selected, items, pending_action,
                 confirmation, help_overlay, pending_prompts, views, error, chan, workers,
                 file, world, nextId, side>>

\* Enter in the title input of the new-with-prompt flow.
TextSubmitPromptTitle ==
  /\ InText
  /\ creating_with_prompt /\ pending_instance_title = None
  /\ IsSome(Submitted)
  /\ LET text == Unwrap(Submitted) IN
       IF text # <<>>
       THEN /\ pending_instance_title' = Some(text)
            /\ text_input' = Some(TextInputOverlay_new("Enter prompt"))
            /\ last' = Op("key", -1, None, TRUE, {})
            /\ UNCHANGED <<state, creating_with_prompt>>
       ELSE /\ text_input' = None
            /\ state' = Default
            /\ creating_with_prompt' = FALSE
            /\ last' = Op("key", -1, None, TRUE, {})
            /\ UNCHANGED pending_instance_title
  /\ UNCHANGED <<pc, running, instances, selected, items, pending_action,
                 confirmation, help_overlay, pending_prompts, views, error, chan, workers,
                 file, world, nextId, side>>

\* A pending prompt: its text, and the instance the flow is creating for it
\* (owner is not in the source: it names the instance the prompt is meant for).
PendingPrompt(text, owner) == [text |-> text, owner |-> owner]

\* Enter in the prompt input: App::create_instance_with_prompt.
TextSubmitPrompt ==
  /\ InText
  /\ creating_with_prompt /\ IsSome(pending_instance_title)
  /\ IsSome(Submitted)
  /\ LET prompt == Unwrap(Submitted) IN
       /\ text_input' = None
       /\ pending_instance_title' = None
       /\ state' = Default
       /\ creating_with_prompt' = FALSE
       /\ pending_prompts' =
            IF prompt # <<>>
            THEN With(pending_prompts, Len(instances),
                      PendingPrompt(prompt, nextId + 1))
            ELSE pending_prompts
       /\ create_instance(Unwrap(pending_instance_title))
  /\ UNCHANGED <<pc, running, pending_action, confirmation, help_overlay, views, error, chan,
                 file, world>>

\* Esc in the text input.
TextCancel ==
  /\ InText
  /\ TextInputOverlay_handle_key(Unwrap(text_input), Key("Esc", "")).cancelled
  /\ text_input' = None
  /\ state' = Default
  /\ creating_with_prompt' = FALSE
  /\ pending_instance_title' = None
  /\ last' = Op("key", -1, None, TRUE, {})
  /\ UNCHANGED <<pc, running, instances, selected, items, pending_action,
                 confirmation, help_overlay, pending_prompts, views, error, chan, workers,
                 file, world, nextId, side>>

\* The keys that dismiss the confirmation as confirmed.
ConfirmingKeys ==
  {key \in OverlayKeys :
     LET o == ConfirmationOverlay_handle_key(ConfirmationOverlay_new, key)
     IN  o.dismissed /\ o.confirmed}

InConfirm(kind) ==
  /\ pc = "loop" /\ state = Confirm /\ IsSome(confirmation)
  /\ IsSome(pending_action)
  /\ Unwrap(pending_action).kind = kind
  /\ ConfirmingKeys # {}

CloseConfirm ==
  /\ pending_action' = None
  /\ confirmation' = None
  /\ state' = Default
  /\ UNCHANGED help_overlay

\* App::handle_confirm_key, a key the overlay does not consume.
ConfirmOther ==
  /\ pc = "loop" /\ state = Confirm /\ IsSome(confirmation)
  /\ \E key \in OverlayKeys :
       /\ ~ConfirmationOverlay_handle_key(ConfirmationOverlay_new, key).dismissed
       /\ last' = Op("confirm_other", -1, None, TRUE, {})
  /\ UNCHANGED <<pc, ctl, chan, workers, file, world, nextId, side>>

\* n, N or Esc.
ConfirmNo ==
  /\ pc = "loop" /\ state = Confirm /\ IsSome(confirmation)
  /\ \E key \in OverlayKeys :
       LET o == ConfirmationOverlay_handle_key(ConfirmationOverlay_new, key) IN
       /\ o.dismissed /\ ~o.confirmed
       /\ last' = Op("confirm_no", -1, None, TRUE, {})
  /\ CloseConfirm
  /\ UNCHANGED <<pc, running, instances, selected, items, text_input,
                 creating_with_prompt, pending_instance_title, pending_prompts,
                 views, error, chan, workers, file, world, nextId, side>>

\* y or Y on a pending KillSession: App::kill_instance.
ConfirmYesKill ==
  /\ InConfirm("KillSession")
  /\ CloseConfirm
  /\ LET idx == Unwrap(pending_action).idx IN
     IF idx < Len(instances)
     THEN \E fault \in {"none", "rm_dir"} :
            LET r == Instance_kill(instances[idx + 1], W, fault) IN
            /\ SetWorld(r.w)
            /\ last' = Op("kill", idx, Some(instances[idx + 1]), r.ok, {})
            /\ IF r.ok
               THEN /\ instances' = RemoveAt(instances, idx + 1)
                    /\ refresh_list
                    /\ App_save_instances
                    /\ UNCHANGED error
               ELSE /\ instances' = [instances EXCEPT ![idx + 1] = r.inst]
                    /\ error' = Some("kill failed")
                    /\ UNCHANGED <<selected, items, file>>
     ELSE /\ last' = Op("kill", idx, None, TRUE, {})
          /\ UNCHANGED <<instances, selected, items, error, file, world>>
  /\ UNCHANGED <<pc, running, text_input, creating_with_prompt,
                 pending_instance_title, pending_prompts, views, chan, workers,
                 nextId, side>>

\* y or Y on a pending DeleteSession: App::delete_instance.
ConfirmYesDelete ==
  /\ InConfirm("DeleteSession")
  /\ CloseConfirm
  /\ LET idx == Unwrap(pending_action).idx IN
     IF idx < Len(instances)
     THEN /\ instances' = RemoveAt(instances, idx + 1)
          /\ refresh_list
          /\ App_save_instances
          /\ last' = Op("delete", idx, Some(instances[idx + 1]), TRUE, {})
     ELSE /\ last' = Op("delete", idx, None, TRUE, {})
          /\ UNCHANGED <<instances, selected, items, file>>
  /\ UNCHANGED <<pc, running, text_input, creating_with_prompt,
                 pending_instance_title, pending_prompts, views, error, chan,
                 workers, world, nextId, side>>

\* y or Y on a pending PushSession: self.instances[idx].push_and_pr(..); the
\* index is not checked, so an index past the end of the list panics and the
\* process dies without saving.
ConfirmYesPush ==
  /\ InConfirm("PushSession")
  /\ CloseConfirm
  /\ LET idx == Unwrap(pending_action).idx IN
     IF idx < Len(instances)
     THEN \E ok \in BOOLEAN :
            /\ error' = IF ok THEN error ELSE Some("Push failed")
            /\ last' = Op("push", idx, None, ok, {})
            /\ UNCHANGED <<pc, chan, workers>>
     ELSE /\ pc' = "exited"
          /\ chan' = <<>>
          /\ workers' = {}
          /\ last' = Op("panic", idx, None, FALSE, {})
          /\ UNCHANGED error
  /\ UNCHANGED <<running, instances, selected, items, text_input,
                 creating_with_prompt, pending_instance_title, pending_prompts,
                 views, file, world, nextId, side>>

\* schedule_background_updates that does not look at the selected instance's
\* status.
Tick_any_status ==
  /\ pc = "loop"
  /\ selected < Len(instances)
  /\ LET inst == instances[selected + 1]
         nw == workers
               \cup {Worker("capture", selected, inst.title, None, inst.id)}
               \cup (IF IsSome(inst.git_worktree)
                     THEN {Worker("diff", selected, inst.title,
                                  inst.git_worktree, inst.id)}
                     ELSE {})
     IN  /\ Cardinality(nw) <= MaxWorkers
         /\ workers' = nw
         /\ last' = Op("tick", -1, None, TRUE, {})
  /\ UNCHANGED <<pc, ctl, chan, file, world, nextId, side>>

\* App::schedule_background_updates: the capturer and the diff worker for the
\* selected instance.
Tick ==
  /\ pc = "loop"
  /\ selected < Len(instances)
  /\ LET inst == instances[selected + 1]
         nw == workers
               \cup {Worker("capture", selected, inst.title, None, inst.id)}
               \cup (IF IsSome(inst.git_worktree)
                     THEN {Worker("diff", selected, inst.title,
                                  inst.git_worktree, inst.id)}
                     ELSE {})
     IN  /\ inst.status = Running
         /\ inst.started
         /\ Cardinality(nw) <= MaxWorkers
         /\ workers' = nw
         /\ last' = Op("tick", -1, None, TRUE, {})
  /\ UNCHANGED <<pc, ctl, chan, file, world, nextId, side>>

\* App::run, the loading animation or the fallback art in the preview pane.
FramePreview ==
  /\ pc = "loop"
  /\ IF selected < Len(instances)
     THEN /\ instances[selected + 1].status = Loading
          /\ preview' = "loading"
     ELSE /\ instances = <<>>
          /\ preview = ""
          /\ preview' = "fallback"
  /\ preview' # preview
  /\ last' = Op("frame", -1, None, TRUE, {})
  /\ UNCHANGED <<pc, running, overlays, instances, selected, items,
                 pending_prompts, diff_view, error, chan, workers, file, world,
                 nextId, side>>

\* ------------------------------------------- App::process_background_updates
\* One iteration of the drain loop: one try_recv and the match arm it takes.
Receiving(type) ==
  /\ pc = "loop"
  /\ chan # <<>>
  /\ Head(chan).type = type
  /\ chan' = Tail(chan)

ProcessPreviewContent ==
  /\ Receiving("PreviewContent")
  /\ LET m == Head(chan) IN
     /\ preview' = IF m.idx = selected THEN m.content ELSE preview
     /\ last' = Op("PreviewContent", m.idx, None, TRUE, {})
  /\ UNCHANGED <<pc, running, overlays, instances, selected, items,
                 pending_prompts, diff_view, error, workers, file, world,
                 nextId, side>>

ProcessDiffComputed ==
  /\ Receiving("DiffComputed")
  /\ LET m == Head(chan) IN
     /\ diff_view' = IF m.idx = selected THEN m.content ELSE diff_view
     /\ IF m.idx < Len(instances)
        THEN /\ instances' = [instances EXCEPT
                                ![m.idx + 1].diff_stats = Some(m.content)]
             /\ refresh_list
             /\ last' = Op("DiffComputed", m.idx, None, TRUE, {})
        ELSE /\ last' = Op("DiffComputed", m.idx, None, TRUE, {})
             /\ UNCHANGED <<instances, selected, items>>
  /\ UNCHANGED <<pc, running, overlays, pending_prompts, preview, error,
                 workers, file, world, nextId, side>>

\* instance_ready without the assignment of the branch.
instance_ready_keeps_branch(inst, wt, w, fault) ==
  LET i0 == [inst EXCEPT !.git_worktree = Some(wt)]
      r == restore_session(i0, w, fault)
  IN  IF r.ok THEN [ok |-> TRUE, inst |-> [r.inst EXCEPT !.status = Running]]
      ELSE [ok |-> FALSE, inst |-> [i0 EXCEPT !.status = Ready]]

\* The InstanceReady arm on the instance it finds at the index: the branch and
\* the worktree handle are stored, then the session is attached.
instance_ready(inst, wt, w, fault) ==
  LET i0 == [inst EXCEPT !.branch = wt.branch, !.git_worktree = Some(wt)]
      r == restore_session(i0, w, fault)
  IN  IF r.ok THEN [ok |-> TRUE, inst |-> [r.inst EXCEPT !.status = Running]]
      ELSE [ok |-> FALSE, inst |-> [i0 EXCEPT !.status = Ready]]

ProcessInstanceReady ==
  /\ Receiving("InstanceReady")
  /\ LET m == Head(chan) IN
     IF m.idx < Len(instances)
     THEN \E fault \in {"none", "attach_pty"} :
            LET r == instance_ready(instances[m.idx + 1], Unwrap(m.wt), W, fault)
            IN  /\ instances' = [instances EXCEPT ![m.idx + 1] = r.inst]
                /\ error' = IF r.ok THEN error
                            ELSE Some("Failed to attach to session")
                /\ pending_prompts' = Without(pending_prompts, m.idx)
                /\ refresh_list
                /\ App_save_instances
                /\ last' = Op("InstanceReady", m.idx,
                              Some(instances[m.idx + 1]), r.ok,
                              IF m.idx \in DOMAIN pending_prompts
                                 /\ pending_prompts[m.idx].text # <<>>
                              THEN Instance_send_prompt(r.inst,
                                                        pending_prompts[m.idx])
                              ELSE {})
     ELSE /\ last' = Op("InstanceReady", m.idx, None, TRUE, {})
          /\ UNCHANGED <<instances, selected, items, pending_prompts, error,
                         file>>
  /\ UNCHANGED <<pc, running, overlays, views, workers, world, nextId, side>>

ProcessInstanceFailed ==
  /\ Receiving("InstanceFailed")
  /\ LET m == Head(chan) IN
     IF m.idx < Len(instances)
     THEN /\ instances' = RemoveAt(instances, m.idx + 1)
          /\ pending_prompts' = Without(pending_prompts, m.idx)
          /\ refresh_list
          /\ last' = Op("InstanceFailed", m.idx, Some(instances[m.idx + 1]),
                        TRUE, {})
     ELSE /\ last' = Op("InstanceFailed", m.idx, None, TRUE, {})
          /\ UNCHANGED <<instances, selected, items, pending_prompts>>
  /\ error' = Some("Session creation failed")
  /\ UNCHANGED <<pc, running, overlays, views, workers, file, world, nextId, side>>

\* session_died without the reset of the multiplexer handle.
session_died_keeps_handle(inst) ==
  [inst EXCEPT !.status = Ready, !.started = FALSE]

\* The SessionDied arm on a Running instance.
session_died(inst) ==
  [inst EXCEPT !.status = Ready, !.tmux_session = None, !.started = FALSE]

ProcessSessionDied ==
  /\ Receiving("SessionDied")
  /\ LET m == Head(chan) IN
     IF m.idx < Len(instances)
     THEN /\ last' = Op("SessionDied", m.idx, Some(instances[m.idx + 1]),
                        TRUE, {})
          /\ IF instances[m.idx + 1].status = Running
             THEN /\ instances' = [instances EXCEPT
                          ![m.idx + 1] = session_died(instances[m.idx + 1])]
                  /\ refresh_list
                  /\ App_save_instances
             ELSE UNCHANGED <<instances, selected, items, file>>
     ELSE /\ last' = Op("SessionDied", m.idx, None, TRUE, {})
          /\ UNCHANGED <<instances, selected, items, file>>
  /\ UNCHANGED <<pc, running, overlays, pending_prompts, views, error, workers,
                 world, nextId, side>>

\* ---------------------------------------------------------------- workers
Send(m) ==
  /\ Len(chan) < MaxChan
  /\ chan' = Append(chan, m)

\* The creation worker of App::create_instance: GitWorktree::new and setup.
CreateWorkerSetup ==
  \E wk \in workers :
    /\ wk.kind = "create"
    /\ wk.wt = None
    /\ \E fault \in {"none", "git_add"} :
         LET wt == GitWorktree_new(wk.title, wk.src)
             s == IF fault = "git_new" THEN [ok |-> FALSE, w |-> W]
                  ELSE setup(wt, W, fault)
         IN  /\ SetWorld(s.w)
             /\ IF s.ok
                THEN /\ workers' = (workers \ {wk})
                                   \cup {[wk EXCEPT !.wt = Some(wt)]}
                     /\ UNCHANGED chan
                ELSE /\ Send(Msg("InstanceFailed", wk.idx, "", None, wk.src))
                     /\ workers' = workers \ {wk}
             /\ last' = Op("worker", -1, None, TRUE, {})
    /\ UNCHANGED <<pc, ctl, file, nextId, side>>

\* The creation worker: kill-session, new-session, the trust-prompt poll and
\* the InstanceReady message.
CreateWorkerSession ==
  \E wk \in workers :
    /\ wk.kind = "create"
    /\ IsSome(wk.wt)
    /\ LET name == sanitize_name(wk.title) IN
       \E fault \in {"none", "new_session"} :
         /\ sessions' = IF fault = "none" THEN sessions \cup {name}
                        ELSE sessions \ {name}
         /\ Send(IF fault = "none"
                 THEN Msg("InstanceReady", wk.idx, "", wk.wt, wk.src)
                 ELSE Msg("InstanceFailed", wk.idx, "", None, wk.src))
         /\ last' = Op("worker", -1, None, TRUE, {})
    /\ workers' = workers \ {wk}
    /\ UNCHANGED <<pc, ctl, file, dirs, registered, branches, flags,
                   nextId, side>>

\* The capturer thread of schedule_background_updates.
Capturer ==
  \E wk \in workers :
    /\ wk.kind = "capture"
    /\ workers' = workers \ {wk}
    /\ IF sanitize_name(wk.title) \notin sessions
       THEN Send(Msg("SessionDied", wk.idx, "", None, wk.src))
       ELSE \/ \E c \in Contents :
                 Send(Msg("PreviewContent", wk.idx, c, None, wk.src))
            \/ UNCHANGED chan
    /\ last' = Op("worker", -1, None, TRUE, {})
    /\ UNCHANGED <<pc, ctl, file, world, nextId, side>>

\* The diff thread of schedule_background_updates.
DiffWorker ==
  \E wk \in workers :
    /\ wk.kind = "diff"
    /\ workers' = workers \ {wk}
    /\ \E d \in DiffValues : Send(Msg("DiffComputed", wk.idx, d, None, wk.src))
    /\ last' = Op("worker", -1, None, TRUE, {})
    /\ UNCHANGED <<pc, ctl, file, world, nextId, side>>

\* A multiplexer session ends on its own (the assistant exits, or the
\* operator kills it from outside).
SessionExit ==
  /\ \E name \in sessions : sessions' = sessions \ {name}
  /\ last' = Op("session_exit", -1, None, TRUE, {})
  /\ UNCHANGED <<pc, ctl, chan, workers, file, dirs, registered, branches,
                 flags, nextId, side>>

Next ==
  \/ run_startup
  \/ Launch
  \/ KeyUp
  \/ KeyDown
  \/ KeyNew
  \/ KeyPrompt
  \/ KeyHelp
  \/ HelpDismiss
  \/ HelpOther
  \/ KeyDelete
  \/ KeyKill
  \/ KeyPush
  \/ KeyPause
  \/ KeyQuit
  \/ TextChar
  \/ TextEdit
  \/ TextSubmitNew
  \/ TextSubmitPromptTitle
  \/ TextSubmitPrompt
  \/ TextCancel
  \/ ConfirmOther
  \/ ConfirmNo
  \/ ConfirmYesKill
  \/ ConfirmYesDelete
  \/ ConfirmYesPush
  \/ Tick
  \/ FramePreview
  \/ ProcessPreviewContent
  \/ ProcessDiffComputed
  \/ ProcessInstanceReady
  \/ ProcessInstanceFailed
  \/ ProcessSessionDied
  \/ CreateWorkerSetup
  \/ CreateWorkerSession
  \/ Capturer
  \/ DiffWorker
  \/ SessionExit

Spec == Init /\ [][Next]_vars

\* ------------------------------------------- the controller with a clock
\* Time passes between the steps of the controller; in the other behaviours
\* every step happens within one tick.
time_passes ==
  /\ now < MaxClock
  /\ now' = now + 1
  /\ last' = Op("time", -1, None, TRUE, {})
  /\ UNCHANGED <<pc, ctl, chan, workers, file, world, nextId, quota, tmux_vars, pane_vars,
                 screen, attach_vars, daemon_vars>>

NextClock ==
  \/ run_startup
  \/ Launch
  \/ HelpDismiss
  \/ KeyNew
  \/ TextChar
  \/ TextSubmitNew
  \/ KeyKill
  \/ ConfirmYesKill
  \/ KeyPause
  \/ KeyQuit
  \/ Tick
  \/ ProcessPreviewContent
  \/ ProcessDiffComputed
  \/ ProcessInstanceReady
  \/ ProcessInstanceFailed
  \/ ProcessSessionDied
  \/ CreateWorkerSetup
  \/ CreateWorkerSession
  \/ Capturer
  \/ DiffWorker
  \/ SessionExit
  \/ time_passes

SpecClock == Init /\ [][NextClock]_vars

\* ----------------------------------------- the controller with two sessions
\* Two sessions can be asked for. The creation flows, their workers and
\* messages, delete and pause are taken; the 500 ms polling of the selected
\* session and the restart are not.
InitPair == InitController(MaxPairCreates) /\ flags = 0

NextPair ==
  \/ run_startup
  \/ HelpDismiss
  \/ KeyUp
  \/ KeyDown
  \/ KeyNew
  \/ KeyPrompt
  \/ KeyDelete
  \/ KeyPause
  \/ TextChar
  \/ TextSubmitNew
  \/ TextSubmitPromptTitle
  \/ TextSubmitPrompt
  \/ TextCancel
  \/ ConfirmOther
  \/ ConfirmNo
  \/ ConfirmYesDelete
  \/ ProcessInstanceReady
  \/ ProcessInstanceFailed
  \/ CreateWorkerSetup
  \/ CreateWorkerSession

SpecPair == InitPair /\ [][NextPair]_vars

\* The operator only creates instances.
NextLoad ==
  \/ run_startup
  \/ HelpDismiss
  \/ KeyNew
  \/ TextChar
  \/ TextSubmitNew
  \/ ProcessInstanceReady
  \/ ProcessInstanceFailed
  \/ CreateWorkerSetup
  \/ CreateWorkerSession

SpecLoad == InitPair /\ [][NextLoad]_vars

\* Every creation worker runs to its end and the event loop keeps draining
\* the channel.
FairLoad ==
  /\ SpecLoad
  /\ WF_vars(CreateWorkerSetup)
  /\ WF_vars(CreateWorkerSession)
  /\ WF_vars(ProcessInstanceReady)
  /\ WF_vars(ProcessInstanceFailed)

\* --------------------------------------------- the keys of the controller
\* Every key of every overlay, the tab and the attach key, on a list of up to
\* two sessions made with the plain new-session flow.
NextKeys ==
  \/ run_startup
  \/ KeyUp
  \/ KeyDown
  \/ KeyNew
  \/ KeyHelp
  \/ HelpDismiss
  \/ HelpOther
  \/ KeyTab
  \/ KeyAttach
  \/ KeyDelete
  \/ TextChar
  \/ TextEdit
  \/ TextSubmitNew
  \/ TextCancel
  \/ ConfirmOther
  \/ ConfirmNo
  \/ ConfirmYesDelete
  \/ ProcessInstanceReady
  \/ ProcessInstanceFailed
  \/ CreateWorkerSetup
  \/ CreateWorkerSession

SpecKeys == InitPair /\ [][NextKeys]_vars

\* ------------------------------------------------- the store on its own
\* Lists handed to FileStorage: every title, status and started flag, on
\* instances fresh from Instance::new and on instances holding their handles.
StoreFields ==
  [title : Titles, status : InstanceStatus, started : BOOLEAN, live : BOOLEAN]

StoreInstance(f, id) ==
  [id |-> id, title |-> f.title,
   branch |-> IF f.live THEN GitWorktree_new(f.title, id).branch ELSE <<>>,
   status |-> f.status, auto_yes |-> FALSE, updated_at |-> 0,
   started |-> f.started,
   tmux_session |-> IF f.live THEN Some(TmuxSession_new(f.title)) ELSE None,
   git_worktree |-> IF f.live THEN Some(GitWorktree_new(f.title, id)) ELSE None,
   diff_stats |-> IF f.live THEN Some("diff") ELSE None]

InitStorage ==
  /\ pc = "store"
  /\ running = TRUE
  /\ state = Default
  /\ \E n \in 0..MaxStoreLen : \E fs \in [1..n -> StoreFields] :
       instances = [k \in 1..n |-> StoreInstance(fs[k], k)]
  /\ selected = 0
  /\ items = Len(instances)
  /\ pending_action = None
  /\ confirmation = None
  /\ help_overlay = None
  /\ text_input = None
  /\ creating_with_prompt = FALSE
  /\ pending_instance_title = None
  /\ pending_prompts = NoPrompts
  /\ preview = ""
  /\ diff_view = ""
  /\ error = None
  /\ chan = <<>>
  /\ workers = {}
  /\ file = None
  /\ sessions = {}
  /\ dirs = {}
  /\ registered = {}
  /\ branches = {}
  /\ flags = 0
  /\ nextId = 0
  /\ quota = MaxCreates
  /\ now = 0
  /\ InitTmuxOff
  /\ PreviewPane_new
  /\ InitScreen
  /\ InitAttachIdle
  /\ InitDaemonOff
  /\ last = Op("new", -1, None, TRUE, {})

\* FileStorage::save_instances on the list.
StorageSave ==
  /\ pc = "store"
  /\ file' = save_instances(instances)
  /\ pc' = "saved"
  /\ last' = Op("save", -1, None, TRUE, {})
  /\ UNCHANGED <<ctl, chan, workers, world, nextId, side>>

\* FileStorage::load_instances, the result replacing the list.
StorageLoad ==
  /\ pc = "saved"
  /\ instances' = load_instances(file)
  /\ refresh_list
  /\ pc' = "loaded"
  /\ last' = Op("load", -1, None, TRUE, {})
  /\ UNCHANGED <<running, overlays, pending_prompts, views, error, chan,
                 workers, file, world, nextId, side>>

NextStorage ==
  \/ StorageSave
  \/ StorageLoad

SpecStorage == InitStorage /\ [][NextStorage]_vars

\* ------------------------------------------------- attach_interactive
\* One TmuxSession after start, the host terminal's stdin, and the threads
\* attach_interactive leaves behind. The controller and the repository are at
\* rest.
rest == <<pc, ctl, chan, workers, file, world, nextId, quota, now, tmux_vars, pane_vars, screen,
          daemon_vars, last>>

InitRest(p) ==
  /\ pc = p
  /\ running = TRUE
  /\ state = Default
  /\ instances = <<>>
  /\ selected = 0
  /\ items = 0
  /\ pending_action = None
  /\ confirmation = None
  /\ help_overlay = None
  /\ text_input = None
  /\ creating_with_prompt = FALSE
  /\ pending_instance_title = None
  /\ pending_prompts = NoPrompts
  /\ preview = ""
  /\ diff_view = ""
  /\ error = None
  /\ chan = <<>>
  /\ workers = {}
  /\ file = None
  /\ dirs = {}
  /\ registered = {}
  /\ branches = {}
  /\ flags = 0
  /\ nextId = 0
  /\ quota = 0
  /\ now = 0
  /\ InitScreen

InitQuiet(p) ==
  /\ InitRest(p)
  /\ sessions = {}
  /\ InitTmuxOff
  /\ PreviewPane_new
  /\ last = Op("new", -1, None, TRUE, {})

\* if n == 1 && buf[0] == 17
CtrlQ == 17

\* What the operator types: Ctrl-Q and one other key.
Bytes == {CtrlQ, 120}

\* TmuxSession::start has opened the monitoring PTY 0 and set attached.
InitAttach ==
  /\ InitQuiet("attach")
  /\ InitDaemonOff
  /\ ptmx = Some(0)
  /\ attached = TRUE
  /\ call = 0
  /\ main = "idle"
  /\ stop_flag = {}
  /\ detach_rx = 0
  /\ threads = {}
  /\ stdin_lock = 0
  /\ stdin_bytes = <<>>
  /\ pty_eof = {}
  /\ ctrl_q = 0
  /\ window = FALSE

\* A thread of the call c: the copier of PTY output (stdout_handle), the
\* stdin forwarder (stdin_handle), the size monitor (_resize_handle).
Thread(kind, c, st, early, pty) ==
  [kind |-> kind, call |-> c, st |-> st, early |-> early, pty |-> pty]

\* detach_tx.send(()): the message is lost when the receiver of that call is
\* no longer waiting.
detach_tx_send(c) ==
  IF c = call /\ main = "recv" THEN detach_rx + 1 ELSE detach_rx

\* attach_interactive up to detach_rx.recv(): without PTY, or when a clone of
\* it fails, an error; otherwise the three threads are spawned.
attach_interactive ==
  /\ main \in {"idle", "ok", "err"}
  /\ call < MaxAttach
  /\ call' = call + 1
  /\ detach_rx' = 0
  /\ \E fault \in {"none", "clone"} :
       IF ptmx = None \/ fault = "clone"
       THEN /\ main' = "err"
            /\ window' = FALSE
            /\ UNCHANGED threads
       ELSE /\ main' = "recv"
            /\ window' = TRUE
            /\ threads' = threads \cup
                 {Thread("stdout", call + 1, "read", FALSE, Unwrap(ptmx)),
                  Thread("stdin", call + 1, "lock", FALSE, Unwrap(ptmx)),
                  Thread("resize", call + 1, "loop", FALSE, Unwrap(ptmx))}
  /\ UNCHANGED <<ptmx, attached, stop_flag, stdin_lock, stdin_bytes, pty_eof,
                 ctrl_q, rest>>

\* Thread 1: ptmx_reader.read returns 0 or an error once the far end of the
\* PTY is closed; the thread signals detach and ends.
stdout_handle_eof ==
  \E t \in threads :
    /\ t.kind = "stdout" /\ t.pty \in pty_eof
    /\ detach_rx' = detach_tx_send(t.call)
    /\ threads' = threads \ {t}
    /\ UNCHANGED <<ptmx, attached, call, main, stop_flag, stdin_lock,
                   stdin_bytes, pty_eof, ctrl_q, window, rest>>

\* Thread 2: std::io::stdin().lock(), then start = Instant::now(). The lock
\* is kept until the thread ends.
stdin_handle_lock ==
  \E t \in threads :
    /\ t.kind = "stdin" /\ t.st = "lock"
    /\ stdin_lock = 0
    /\ stdin_lock' = t.call
    /\ threads' = (threads \ {t}) \cup {[t EXCEPT !.st = "read", !.early = TRUE]}
    /\ UNCHANGED <<ptmx, attached, call, main, stop_flag, detach_rx,
                   stdin_bytes, pty_eof, ctrl_q, window, rest>>

\* Thread 2: one stdin.read, which returns everything that is waiting. In
\* the first 50 ms the bytes are skipped; a read of the single byte 17
\* signals detach and ends the thread; anything else goes to the PTY.
stdin_handle_read ==
  \E t \in threads :
    /\ t.kind = "stdin" /\ t.st = "read"
    /\ stdin_bytes # <<>>
    /\ stdin_bytes' = <<>>
    /\ IF ~t.early /\ Len(stdin_bytes) = 1 /\ stdin_bytes[1] = CtrlQ
       THEN /\ detach_rx' = detach_tx_send(t.call)
            /\ threads' = threads \ {t}
            /\ stdin_lock' = 0
       ELSE UNCHANGED <<detach_rx, threads, stdin_lock>>
    /\ UNCHANGED <<ptmx, attached, call, main, stop_flag, pty_eof, ctrl_q,
                   window, rest>>

\* 50 ms after the call. By then the forwarder has taken its start time,
\* unless the lock on stdin is held by another thread; a forwarder that was
\* reading from the beginning of the call leaves its own 50 ms with it.
window_elapses ==
  /\ window /\ main = "recv"
  /\ ~(stdin_lock = 0 /\ \E t \in threads :
         t.kind = "stdin" /\ t.call = call /\ t.st = "lock")
  /\ window' = FALSE
  /\ threads' = {IF t.kind = "stdin" /\ t.call = call
                 THEN [t EXCEPT !.early = FALSE] ELSE t : t \in threads}
  /\ UNCHANGED <<ptmx, attached, call, main, stop_flag, detach_rx, stdin_lock,
                 stdin_bytes, pty_eof, ctrl_q, rest>>

\* 50 ms after the start time of a forwarder that took the lock later.
start_elapsed ==
  \E t \in threads :
    /\ t.kind = "stdin" /\ t.st = "read" /\ t.early
    /\ ~(t.call = call /\ window)
    /\ threads' = (threads \ {t}) \cup {[t EXCEPT !.early = FALSE]}
    /\ UNCHANGED <<ptmx, attached, call, main, stop_flag, detach_rx,
                   stdin_lock, stdin_bytes, pty_eof, ctrl_q, window, rest>>

\* Thread 3: while !resize_stop.load(..).
resize_handle_stop ==
  \E t \in threads :
    /\ t.kind = "resize" /\ t.call \in stop_flag
    /\ threads' = threads \ {t}
    /\ UNCHANGED <<ptmx, attached, call, main, stop_flag, detach_rx,
                   stdin_lock, stdin_bytes, pty_eof, ctrl_q, window, rest>>

\* let _ = detach_rx.recv();
detach_rx_recv ==
  /\ main = "recv" /\ detach_rx > 0
  /\ detach_rx' = detach_rx - 1
  /\ main' = "stop"
  /\ UNCHANGED <<ptmx, attached, call, stop_flag, threads, stdin_lock,
                 stdin_bytes, pty_eof, ctrl_q, window, rest>>

\* stop_flag.store(true, ..); the thread handles are dropped, not joined.
stop_flag_store ==
  /\ main = "stop"
  /\ stop_flag' = stop_flag \cup {call}
  /\ main' = "detach"
  /\ UNCHANGED <<ptmx, attached, call, detach_rx, threads, stdin_lock,
                 stdin_bytes, pty_eof, ctrl_q, window, rest>>

\* TmuxSession::detach and the return of attach_interactive: the PTY is
\* taken out of the session, a new monitoring PTY is started and stored,
\* attached is cleared. When the new PTY cannot be started the session is
\* left without one.
detach(fault) ==
  IF fault = "pty"
  THEN [ok |-> FALSE, ptmx |-> None, attached |-> attached]
  ELSE [ok |-> TRUE, ptmx |-> Some(call), attached |-> FALSE]

attach_interactive_return ==
  /\ main = "detach"
  /\ \E fault \in {"none", "pty"} :
       LET r == detach(fault) IN
       /\ ptmx' = r.ptmx
       /\ attached' = r.attached
       /\ main' = IF r.ok THEN "ok" ELSE "err"
  /\ window' = FALSE
  /\ UNCHANGED <<call, stop_flag, detach_rx, threads, stdin_lock, stdin_bytes,
                 pty_eof, ctrl_q, rest>>

\* The operator presses a key, and after Ctrl-Q waits until it has been
\* read. Ctrl-Q counts as sent to the call as a single byte when the call is
\* waiting for its detach signal, its first 50 ms have passed and nothing
\* typed before is still unread.
operator_types ==
  /\ Len(stdin_bytes) < MaxStdin
  /\ \A i \in 1..Len(stdin_bytes) : stdin_bytes[i] # CtrlQ
  /\ \E b \in Bytes :
       /\ stdin_bytes' = Append(stdin_bytes, b)
       /\ ctrl_q' = IF b = CtrlQ /\ main = "recv" /\ ~window
                       /\ stdin_bytes = <<>>
                    THEN call ELSE ctrl_q
  /\ UNCHANGED <<ptmx, attached, call, main, stop_flag, detach_rx, threads,
                 stdin_lock, pty_eof, window, rest>>

\* Outside attach_interactive the controller reads its keys from the same
\* terminal: event::read in App::run.
event_read ==
  /\ main \in {"idle", "ok", "err"}
  /\ stdin_bytes # <<>>
  /\ stdin_bytes' = <<>>
  /\ UNCHANGED <<ptmx, attached, call, main, stop_flag, detach_rx, threads,
                 stdin_lock, pty_eof, ctrl_q, window, rest>>

\* The far end of the PTY the copier reads is closed: the tmux client ends
\* because the session ended or was detached with the tmux prefix.
pty_closes ==
  /\ main = "recv"
  /\ \E t \in threads :
       /\ t.kind = "stdout" /\ t.call = call /\ t.pty \notin pty_eof
       /\ pty_eof' = pty_eof \cup {t.pty}
  /\ UNCHANGED <<ptmx, attached, call, main, stop_flag, detach_rx, threads,
                 stdin_lock, stdin_bytes, ctrl_q, window, rest>>

NextAttach ==
  \/ attach_interactive
  \/ stdout_handle_eof
  \/ stdin_handle_lock
  \/ stdin_handle_read
  \/ window_elapses
  \/ start_elapsed
  \/ resize_handle_stop
  \/ detach_rx_recv
  \/ stop_flag_store
  \/ attach_interactive_return
  \/ operator_types
  \/ event_read
  \/ pty_closes

\* The threads and the caller keep running; the operator and the far end of
\* the PTY act when they choose.
FairAttach ==
  /\ WF_vars(stdout_handle_eof)
  /\ WF_vars(stdin_handle_lock)
  /\ WF_vars(stdin_handle_read)
  /\ WF_vars(window_elapses)
  /\ WF_vars(start_elapsed)
  /\ WF_vars(resize_handle_stop)
  /\ WF_vars(detach_rx_recv)
  /\ WF_vars(stop_flag_store)
  /\ WF_vars(attach_interactive_return)

SpecAttach == InitAttach /\ [][NextAttach]_vars /\ FairAttach

\* ------------------------------------------------------- the title input
\* The operator opens the input for a session title and types into it at
\* length; nothing is submitted.
InitInput ==
  /\ InitQuiet("loop")
  /\ InitAttachIdle
  /\ InitDaemonOff

\* App::handle_text_input_key on a key that neither submits nor cancels,
\* while the title is being entered.
TitleKey ==
  /\ InText
  /\ pending_instance_title = None
  /\ \E key \in {Key("Char", "a")} \cup EditKeys :
       /\ key.code = "Char" => Len(Unwrap(text_input).input) < MaxInput
       /\ text_input' = Some(TextInputOverlay_handle_key(Unwrap(text_input), key))
       /\ last' = Op(IF key.code = "Char" THEN "char" ELSE "key", -1, None,
                     TRUE, {})
  /\ UNCHANGED <<pc, running, state, instances, selected, items, pending_action,
                 confirmation, help_overlay, creating_with_prompt, pending_instance_title,
                 pending_prompts, views, error, chan, workers, file, world,
                 nextId, side>>

NextInput ==
  \/ KeyNew
  \/ KeyPrompt
  \/ TitleKey
  \/ TextCancel

SpecInput == InitInput /\ [][NextInput]_vars

\* ------------------------------------------------- the branch-name sanitizer
\* The characters of the titles: letters of both cases, a letter outside
\* ASCII, a digit, the space, the separators, and a character that is dropped.
BranchChars == {"a", "A", "e_acute", "0", " ", "-", "/", ".", "_", "!"}

RECURSIVE SeqsUpTo(_, _)
SeqsUpTo(S, n) ==
  IF n = 0 THEN {<<>>}
  ELSE LET shorter == SeqsUpTo(S, n - 1)
       IN  shorter \cup {Append(t, c) : t \in {x \in shorter : Len(x) = n - 1}, c \in S}

BranchTitles == SeqsUpTo(BranchChars, MaxTitleLen)

\* A title is handed to GitWorktree::new_with_config.
InitBranch ==
  /\ InitRest("branch")
  /\ sessions = {}
  /\ InitTmuxOff
  /\ PreviewPane_new
  /\ InitAttachIdle
  /\ InitDaemonOff
  /\ \E t \in BranchTitles : last = Op("title", 0, Some(t), TRUE, {})

\* sanitize_branch_name applied to the title, then to its own result.
sanitize_step ==
  /\ pc = "branch"
  /\ last.idx < 2
  /\ LET name == IF last.idx = 0 THEN Unwrap(last.pre) ELSE Unwrap(last.aux)
     IN  last' = Op("sanitize_branch_name", last.idx + 1, Some(name), TRUE,
                    Some(sanitize_branch_name(name)))
  /\ UNCHANGED <<pc, ctl, chan, workers, file, world, nextId, side>>

NextBranch == sanitize_step

SpecBranch == InitBranch /\ [][NextBranch]_vars

\* ------------------------------------------------- one multiplexer session
\* A TmuxSession for the title a: start, the trust-prompt poll (the one of
\* start and the one in the worker of App::create_instance), has_updated.
TmuxName == sanitize_name(<<"a">>)

Programs == {"claude", "aider", "gemini", "amp", "sh"}

\* What a pane shows, as the set of the phrases it contains.
PaneContents ==
  { {}, {"$"},
    {"Do you trust the files in this folder?"},
    {"Open documentation url"},
    {"No, and tell Claude what to do differently"},
    {"(Y)es/(N)o/(D)on't ask again"},
    {"Yes, allow once"},
    {"Allow"}, {"Allow", "Deny"} }

\* str::contains
contains(content, phrase) == phrase \in content

\* The outcomes of capture-pane: an error, or the content.
Captures == {None} \cup {Some(c) : c \in PaneContents}

\* A hash under which every content collides with every other.
Sha256_constant(content) == <<"sha256">>

\* format!("{:x}", Sha256::digest(content.as_bytes())): a different hash for
\* every content; the empty String of a new session is <<>>.
Sha256(content) == <<"sha256", content>>

\* TmuxSession::has_ai_prompt
has_ai_prompt(content, prog) ==
  CASE prog = "claude" -> contains(content, "No, and tell Claude what to do differently")
    [] prog = "aider" -> contains(content, "(Y)es/(N)o/(D)on't ask again")
    [] prog = "gemini" -> contains(content, "Yes, allow once")
    [] prog = "amp" -> contains(content, "Allow") /\ contains(content, "Deny")
    [] OTHER -> FALSE

\* The match of handle_trust_prompt: the search string, the response keys and
\* the timeout in milliseconds; no entry for the other programs.
trust_prompt(prog) ==
  CASE prog = "claude" ->
         Some([search |-> "Do you trust the files in this folder?",
               keys |-> <<"Enter">>, timeout |-> 30 * 1000])
    [] prog \in {"aider", "gemini"} ->
         Some([search |-> "Open documentation url",
               keys |-> <<"d", "Enter">>, timeout |-> 45 * 1000])
    [] OTHER -> None

\* The backoff without its cap.
next_interval_uncapped(ms) == (ms * 12) \div 10

\* ((poll_interval.as_millis() as f64 * 1.2) as u64).min(1000)
next_interval(ms) ==
  IF (ms * 12) \div 10 < 1000 THEN (ms * 12) \div 10 ELSE 1000

tmux_rest == <<pc, ctl, chan, workers, file, dirs, registered, branches, flags,
               nextId, quota, now, pane_vars, screen, daemon_vars, call, main, stop_flag,
               detach_rx, threads, stdin_lock, stdin_bytes, pty_eof, ctrl_q,
               window>>

\* TmuxSession::new, or the worker of create_instance after its new-session.
InitTmux ==
  /\ InitRest("tmux")
  /\ PreviewPane_new
  /\ InitAttachIdle
  /\ InitDaemonOff
  /\ program \in Programs
  /\ poller \in {"start", "create_instance"}
  /\ tpc = IF poller = "start" THEN "new" ELSE "trust"
  /\ IF poller = "start" THEN sessions \in {{}, {TmuxName}}
     ELSE sessions = {TmuxName}
  /\ cmds = <<>>
  /\ ptys = {}
  /\ interval = 0
  /\ elapsed = 0
  /\ keys_left = <<>>
  /\ status_hash = <<>>
  /\ seen = None
  /\ last = Op("new", -1, None, TRUE, {})

\* The call returns: the locals are dropped, the first PTY with them.
Return(ok) ==
  /\ tpc' = IF ok THEN "idle" ELSE "failed"
  /\ ptys' = ptys \ {1}
  /\ interval' = 0
  /\ elapsed' = 0
  /\ keys_left' = <<>>
  /\ last' = Op(poller, -1, None, ok, {tpc})

Step == last' = Op("tmux", -1, None, TRUE, {})

\* start that goes on to kill-session whatever has-session said.
start_always_kills ==
  /\ tpc = "new"
  /\ cmds' = <<<<"has-session", IF TmuxName \in sessions THEN "ok" ELSE "err">>>>
  /\ tpc' = "kill"
  /\ Step
  /\ UNCHANGED <<program, poller, ptys, interval, elapsed, keys_left,
                 status_hash, seen, sessions, ptmx, attached, tmux_rest>>

\* TmuxSession::start: tmux has-session.
start_has_session ==
  /\ tpc = "new"
  /\ cmds' = <<<<"has-session", IF TmuxName \in sessions THEN "ok" ELSE "err">>>>
  /\ tpc' = IF TmuxName \in sessions THEN "kill" ELSE "new_session"
  /\ Step
  /\ UNCHANGED <<program, poller, ptys, interval, elapsed, keys_left,
                 status_hash, seen, sessions, ptmx, attached, tmux_rest>>

\* TmuxSession::start: tmux kill-session, whose error ends the call.
start_kill_session ==
  /\ tpc = "kill"
  /\ cmds' = Append(cmds, <<"kill-session", "-t">>)
  /\ \E fault \in {"none", "kill_session"} :
       IF fault = "none"
       THEN /\ sessions' = sessions \ {TmuxName}
            /\ tpc' = "new_session"
            /\ Step
            /\ UNCHANGED <<ptys, interval, elapsed, keys_left>>
       ELSE /\ Return(FALSE)
            /\ UNCHANGED sessions
  /\ UNCHANGED <<program, poller, status_hash, seen, ptmx, attached, tmux_rest>>

\* TmuxSession::start: the PTY of tmux new-session.
start_new_session ==
  /\ tpc = "new_session"
  /\ cmds' = Append(cmds, <<"pty", "new-session">>)
  /\ \E fault \in {"none", "pty"} :
       IF fault = "none"
       THEN /\ sessions' = sessions \cup {TmuxName}
            /\ ptys' = {1}
            /\ tpc' = "attach"
            /\ Step
            /\ UNCHANGED <<interval, elapsed, keys_left>>
       ELSE /\ Return(FALSE)
            /\ UNCHANGED sessions
  /\ UNCHANGED <<program, poller, status_hash, seen, ptmx, attached, tmux_rest>>

\* TmuxSession::start: the PTY of tmux attach-session, kept in ptmx.
start_attach_session ==
  /\ tpc = "attach"
  /\ cmds' = Append(cmds, <<"pty", "attach-session">>)
  /\ \E fault \in {"none", "attach_pty"} :
       IF fault = "none"
       THEN /\ ptys' = ptys \cup {2}
            /\ ptmx' = Some(2)
            /\ attached' = TRUE
            /\ tpc' = "trust"
            /\ Step
            /\ UNCHANGED <<interval, elapsed, keys_left>>
       ELSE /\ Return(FALSE)
            /\ UNCHANGED <<ptmx, attached>>
  /\ UNCHANGED <<program, poller, status_hash, seen, sessions, tmux_rest>>

\* handle_trust_prompt up to its loop: the match on the program.
handle_trust_prompt ==
  /\ tpc = "trust"
  /\ IF trust_prompt(program) = None
     THEN Return(TRUE)
     ELSE /\ interval' = 100
          /\ elapsed' = 0
          /\ tpc' = "poll"
          /\ Step
          /\ UNCHANGED <<ptys, keys_left>>
  /\ UNCHANGED <<program, poller, cmds, status_hash, seen, sessions, ptmx,
                 attached, tmux_rest>>

\* One iteration of the loop: the sleep, the capture, the search, the backoff.
poll ==
  /\ tpc = "poll"
  /\ LET t == Unwrap(trust_prompt(program)) IN
       /\ elapsed < t.timeout
       /\ \E lag \in {0, MaxLag}, captured \in Captures :
            LET found == IsSome(captured) /\ contains(Unwrap(captured), t.search)
            IN  /\ elapsed' = elapsed + interval + lag
                /\ cmds' = Append(cmds, <<"capture-pane", IF found THEN "found" ELSE "none">>)
                /\ IF found
                   THEN /\ keys_left' = t.keys
                        /\ tpc' = "keys"
                        /\ UNCHANGED interval
                   ELSE /\ interval' = next_interval(interval)
                        /\ UNCHANGED <<keys_left, tpc>>
  /\ Step
  /\ UNCHANGED <<program, poller, ptys, status_hash, seen, sessions, ptmx,
                 attached, tmux_rest>>

\* The loop ends at the timeout, which is not an error.
poll_timeout ==
  /\ tpc = "poll"
  /\ elapsed >= Unwrap(trust_prompt(program)).timeout
  /\ Return(TRUE)
  /\ UNCHANGED <<program, poller, cmds, status_hash, seen, sessions, ptmx,
                 attached, tmux_rest>>

\* One response key: send_keys(key)? in start, let _ = cmd.run(send-keys) in
\* the worker of create_instance.
send_key ==
  /\ tpc = "keys"
  /\ keys_left # <<>>
  /\ cmds' = Append(cmds, <<"send-keys", Head(keys_left)>>)
  /\ \E fault \in {"none", "send_keys"} :
       IF fault = "send_keys" /\ poller = "start"
       THEN Return(FALSE)
       ELSE /\ keys_left' = Tail(keys_left)
            /\ Step
            /\ UNCHANGED <<tpc, ptys, interval, elapsed>>
  /\ UNCHANGED <<program, poller, status_hash, seen, sessions, ptmx, attached,
                 tmux_rest>>

\* Every key is sent: return Ok(()), break.
keys_done ==
  /\ tpc = "keys"
  /\ keys_left = <<>>
  /\ Return(TRUE)
  /\ UNCHANGED <<program, poller, cmds, status_hash, seen, sessions, ptmx,
                 attached, tmux_rest>>

\* TmuxSession::has_updated
has_updated ==
  /\ tpc = "idle"
  /\ \E captured \in Captures :
       IF captured = None
       THEN /\ last' = Op("has_updated", -1, seen, FALSE, {})
            /\ UNCHANGED <<status_hash, seen>>
       ELSE LET content == Unwrap(captured)
                hash == Sha256(content)
                changed == hash # status_hash
                has_prompt == has_ai_prompt(content, program)
            IN  /\ status_hash' = IF changed THEN hash ELSE status_hash
                /\ seen' = Some(content)
                /\ last' = Op("has_updated", -1, seen, TRUE, {changed \/ has_prompt})
  /\ UNCHANGED <<tpc, program, poller, cmds, ptys, interval, elapsed, keys_left,
                 sessions, ptmx, attached, tmux_rest>>

NextTmux ==
  \/ start_has_session
  \/ start_kill_session
  \/ start_new_session
  \/ start_attach_session
  \/ handle_trust_prompt
  \/ poll
  \/ poll_timeout
  \/ send_key
  \/ keys_done
  \/ has_updated

SpecTmux == InitTmux /\ [][NextTmux]_vars

\* The caller is scheduled: every sleep ends and every command returns.
FairTmux == SpecTmux /\ WF_vars(NextTmux)

\* ------------------------------------------------------- the list pane
\* ListPane::new, and its methods called in any order with any argument.
InitList == InitQuiet("list") /\ InitAttachIdle /\ InitDaemonOff

list_rest == <<pc, running, overlays, instances, pending_prompts, views, error,
               chan, workers, file, world, nextId, side>>

list_set_items ==
  /\ pc = "list"
  /\ \E n \in 0..MaxItems :
       /\ items' = n
       /\ selected' = set_items(selected, n)
       /\ last' = Op("set_items", n, None, TRUE, {selected})
  /\ UNCHANGED list_rest

list_select_next ==
  /\ pc = "list"
  /\ selected' = select_next(selected, items)
  /\ last' = Op("select_next", -1, None, TRUE, {selected})
  /\ UNCHANGED <<items, list_rest>>

list_select_previous ==
  /\ pc = "list"
  /\ selected' = select_previous(selected, items)
  /\ last' = Op("select_previous", -1, None, TRUE, {selected})
  /\ UNCHANGED <<items, list_rest>>

list_set_selected ==
  /\ pc = "list"
  /\ \E idx \in 0..(MaxItems + 1) :
       /\ selected' = set_selected(selected, items, idx)
       /\ last' = Op("set_selected", idx, None, TRUE, {selected})
  /\ UNCHANGED <<items, list_rest>>

NextList ==
  list_set_items \/ list_select_next \/ list_select_previous \/ list_set_selected

SpecList == InitList /\ [][NextList]_vars

\* ----------------------------------------------------- the preview pane
\* The texts a pane is given: no line, one line, a line with a colour escape
\* in front of a second line, three lines of history.
Texts == { <<>>, <<"a">>, <<"ESC[1ma", "b">>, <<"h1", "h2", "a">> }

\* strip_ansi on a line: the escape sequence goes, the rest stays.
strip_ansi(line) == IF line = "ESC[1ma" THEN "a" ELSE line

\* text.lines().map(|l| strip_ansi(l)).collect()
lines(text) == [k \in 1..Len(text) |-> strip_ansi(text[k])]

\* self.content.len().saturating_sub(1)
max_scroll(shown) == IF Len(shown) = 0 THEN 0 ELSE Len(shown) - 1

\* PreviewPane::clamp_scroll
clamp_scroll(offset, shown) ==
  IF offset > max_scroll(shown) THEN max_scroll(shown) ELSE offset

\* scroll_up without clamp_scroll.
scroll_up_unclamped(offset, amount, shown) == offset + amount

\* PreviewPane::scroll_up: the new offset.
scroll_up(offset, amount, shown) == clamp_scroll(offset + amount, shown)

\* usize::saturating_sub
saturating_sub(a, b) == IF a > b THEN a - b ELSE 0

\* PreviewPane::new followed by one set_content.
InitPane ==
  /\ InitRest("pane")
  /\ sessions = {}
  /\ InitTmuxOff
  /\ InitAttachIdle
  /\ InitDaemonOff
  /\ \E text \in Texts :
       /\ normal_content = lines(text)
       /\ displayed = lines(text)
  /\ scroll_offset = 0
  /\ is_scrolling = FALSE
  /\ last = Op("set_content", -1, None, TRUE, {})

pane_rest == <<pc, ctl, chan, workers, file, world, nextId, quota, now,
               tmux_vars, screen, attach_vars, daemon_vars>>

\* PreviewPane::set_content
pane_set_content ==
  /\ pc = "pane"
  /\ \E text \in Texts :
       /\ normal_content' = lines(text)
       /\ displayed' = IF ~is_scrolling THEN lines(text) ELSE displayed
       /\ last' = Op("set_content", -1, None, TRUE, {})
  /\ UNCHANGED <<scroll_offset, is_scrolling, pane_rest>>

\* PreviewPane::enter_scroll_mode
pane_enter_scroll_mode ==
  /\ pc = "pane"
  /\ \E full_history \in Texts :
       /\ displayed' = lines(full_history)
       /\ is_scrolling' = TRUE
       /\ scroll_offset' = 0
       /\ last' = Op("enter_scroll_mode", -1, None, TRUE, {})
  /\ UNCHANGED <<normal_content, pane_rest>>

\* PreviewPane::scroll_up
pane_scroll_up ==
  /\ pc = "pane"
  /\ \E amount \in 0..MaxScroll :
       /\ scroll_offset' = scroll_up(scroll_offset, amount, displayed)
       /\ last' = Op("scroll_up", amount, None, TRUE, {})
  /\ UNCHANGED <<normal_content, displayed, is_scrolling, pane_rest>>

\* PreviewPane::scroll_down
pane_scroll_down ==
  /\ pc = "pane"
  /\ \E amount \in 0..MaxScroll :
       /\ scroll_offset' = saturating_sub(scroll_offset, amount)
       /\ is_scrolling' = IF scroll_offset' = 0 THEN FALSE ELSE is_scrolling
       /\ last' = Op("scroll_down", amount, None, TRUE, {})
  /\ UNCHANGED <<normal_content, displayed, pane_rest>>

\* PreviewPane::reset_scroll
pane_reset_scroll ==
  /\ pc = "pane"
  /\ displayed' = normal_content
  /\ scroll_offset' = 0
  /\ is_scrolling' = FALSE
  /\ last' = Op("reset_scroll", -1, None, TRUE, {})
  /\ UNCHANGED <<normal_content, pane_rest>>

\* The four scroll methods on a pane whose normal displayed is not set again.
NextScroll ==
  pane_enter_scroll_mode \/ pane_scroll_up \/ pane_scroll_down \/ pane_reset_scroll

SpecScroll == InitPane /\ [][NextScroll]_vars

\* Every method of the pane.
NextPreview == NextScroll \/ pane_set_content

SpecPreview == InitPane /\ [][NextPreview]_vars

\* ------------------------------------------------ the help of the first run
\* The controller is started over a state.json that holds any flags.
InitHelp == InitController(0) /\ flags \in 0..MaxFlags

NextHelp ==
  run_startup \/ Launch \/ HelpDismiss \/ HelpOther \/ KeyHelp \/ KeyQuit
    \/ KeyNew \/ TitleKey \/ TextCancel

SpecHelp == InitHelp /\ [][NextHelp]_vars

\* ------------------------------------------------------------- the daemon
\* The daemon process next to a controller that holds its instances and
\* saves them, and the operator's stop-daemon command.
DaemonFields == [status : {Running, Paused}, auto_yes : BOOLEAN]

\* A started instance of the controller: Running with its handles, or Paused.
DaemonInstance(f, id) ==
  [StoreInstance([title |-> <<"a">>, status |-> f.status, started |-> TRUE,
                  live |-> f.status = Running], id)
     EXCEPT !.auto_yes = f.auto_yes]

InitDaemon ==
  /\ pc = "loop"
  /\ running = TRUE
  /\ state = Default
  /\ \E n \in 0..MaxStoreLen : \E fs \in [1..n -> DaemonFields] :
       instances = [k \in 1..n |-> DaemonInstance(fs[k], k)]
  /\ selected = 0
  /\ items = Len(instances)
  /\ pending_action = None
  /\ confirmation = None
  /\ help_overlay = None
  /\ text_input = None
  /\ creating_with_prompt = FALSE
  /\ pending_instance_title = None
  /\ pending_prompts = NoPrompts
  /\ preview = ""
  /\ diff_view = ""
  /\ error = None
  /\ chan = <<>>
  /\ workers = {}
  /\ file = save_instances(instances)
  /\ sessions = {Unwrap(instances[k].tmux_session).name :
                   k \in {j \in 1..Len(instances) : IsSome(instances[j].tmux_session)}}
  /\ dirs = {}
  /\ registered = {}
  /\ branches = {}
  /\ flags = FLAG_HELP_SEEN
  /\ nextId = Len(instances)
  /\ quota = 0
  /\ now = 0
  /\ InitTmuxOff
  /\ PreviewPane_new
  /\ InitScreen
  /\ InitAttachIdle
  /\ InitDaemonOff
  /\ last = Op("new", -1, None, TRUE, {})

quiet == <<running, state, selected, items, pending_action, confirmation, help_overlay,
           text_input, creating_with_prompt, pending_instance_title,
           pending_prompts, preview, diff_view, error, pc, chan, workers,
           world, nextId, quota, now, tmux_vars, pane_vars, screen, attach_vars>>

\* The process id the daemon runs under.
DaemonPid == "pid"

\* std::fs::write as the operating system runs it: the file is opened and
\* truncated, the text is written, the file is closed. Between the two
\* steps the file holds less than the text: a read gets a torn text.
read_to_string(f, w) ==
  [torn |-> IsSome(w), text |-> IF IsSome(w) THEN None ELSE f]

\* FileStorage::load_instances as the daemon calls it: the instances, or an
\* error when the text does not parse.
daemon_load_instances(read) ==
  IF read.torn THEN [ok |-> FALSE, instances |-> <<>>]
  ELSE [ok |-> TRUE, instances |-> load_instances(read.text)]

\* Instance::has_updated: false without a session handle.
Instance_has_updated(inst, upd) ==
  IsSome(inst.tmux_session) /\ Unwrap(inst.tmux_session).name \in upd

\* Instance::send_keys: the instances whose session received the keys.
Instance_send_keys(inst) == IF IsSome(inst.tmux_session) THEN {inst.id} ELSE {}

\* The controller pauses or resumes an instance and starts to save the
\* list: instances.json is open and truncated.
save_opens ==
  /\ writing = None
  /\ \E k \in 1..Len(instances) :
       /\ instances' = [instances EXCEPT ![k].status =
                          IF @ = Running THEN Paused ELSE Running]
       /\ file' = save_instances(instances')
       /\ writing' = Some(k)
  /\ last' = Op("save_open", -1, None, TRUE, {})
  /\ UNCHANGED <<quiet, pid_file, procs, SHUTDOWN, daemon, updated>>

\* The text is written and the file closed.
save_closes ==
  /\ IsSome(writing)
  /\ writing' = None
  /\ last' = Op("save_close", -1, None, TRUE, {})
  /\ UNCHANGED <<quiet, instances, file, pid_file, procs, SHUTDOWN, daemon,
                 updated>>

\* run_daemon up to the loop: the PID file is written.
run_daemon ==
  /\ daemon = "off"
  /\ pid_file' = Some(DaemonPid)
  /\ procs' = procs \cup {DaemonPid}
  /\ SHUTDOWN' = FALSE
  /\ daemon' = "loop"
  /\ last' = Op("run_daemon", -1, None, TRUE, {})
  /\ UNCHANGED <<quiet, instances, file, writing, updated>>

\* The instances one poll of the daemon sends "y\n" to.
poll_sends(list, upd) ==
  UNION {IF list[k].status = Running /\ list[k].auto_yes
            /\ Instance_has_updated(list[k], upd)
         THEN Instance_send_keys(list[k]) ELSE {} : k \in 1..Len(list)}

\* One round of the loop of run_daemon.
daemon_poll ==
  /\ daemon = "loop" /\ ~SHUTDOWN
  /\ LET text == read_to_string(file, writing)
         r == daemon_load_instances(text)
     IN  last' = Op("poll", -1, None, r.ok,
                    [seen |-> text,
                     sent |-> IF r.ok THEN poll_sends(r.instances, updated)
                              ELSE {}])
  /\ UNCHANGED <<quiet, instances, file, daemon_vars>>

\* The loop ends on SHUTDOWN: the PID file is removed.
daemon_exits ==
  /\ daemon = "loop" /\ SHUTDOWN
  /\ pid_file' = None
  /\ procs' = procs \ {DaemonPid}
  /\ daemon' = "stopped"
  /\ last' = Op("daemon_exit", -1, None, TRUE, {})
  /\ UNCHANGED <<quiet, instances, file, SHUTDOWN, writing, updated>>

\* The daemon process is killed outright or the machine restarts: nothing
\* of run_daemon runs any more.
daemon_dies ==
  /\ daemon = "loop"
  /\ procs' = procs \ {DaemonPid}
  /\ daemon' = "dead"
  /\ last' = Op("daemon_dies", -1, None, TRUE, {})
  /\ UNCHANGED <<quiet, instances, file, pid_file, SHUTDOWN, writing, updated>>

\* platform::kill_process: SIGTERM, an error when there is no such process.
kill_process(pid, ps) ==
  IF pid \in ps THEN [ok |-> TRUE, signalled |-> {pid}]
  ELSE [ok |-> FALSE, signalled |-> {}]

\* stop_daemon
stop_daemon ==
  /\ IF pid_file = None
     THEN /\ last' = Op("stop_daemon", -1, None, TRUE,
                        [had_file |-> FALSE, signalled |-> {}])
          /\ UNCHANGED <<pid_file, SHUTDOWN>>
     ELSE LET r == kill_process(Unwrap(pid_file), procs) IN
          /\ SHUTDOWN' = (SHUTDOWN \/ r.signalled # {})
          /\ pid_file' = IF r.ok THEN None ELSE pid_file
          /\ last' = Op("stop_daemon", -1, None, r.ok,
                        [had_file |-> TRUE, signalled |-> r.signalled])
  /\ UNCHANGED <<quiet, instances, file, procs, daemon, writing, updated>>

\* The pane of a session shows something new.
pane_changes ==
  /\ \E s \in sessions \ updated : updated' = updated \cup {s}
  /\ last' = Op("pane", -1, None, TRUE, {})
  /\ UNCHANGED <<quiet, instances, file, pid_file, procs, SHUTDOWN, daemon,
                 writing>>

NextDaemon ==
  \/ save_opens
  \/ save_closes
  \/ run_daemon
  \/ daemon_poll
  \/ daemon_exits
  \/ daemon_dies
  \/ stop_daemon
  \/ pane_changes

SpecDaemon == InitDaemon /\ [][NextDaemon]_vars

\* ================================================================ claims
\* The instance record a finished operation found at its index.
Pre == Unwrap(last.pre)

\* The instance at the index of the operation that produced this state.
Cur == instances[last.idx + 1]

\* The ids of the records of instances.json, in order.
FileIds(f) == [k \in 1..Len(Unwrap(f)) |-> Unwrap(f)[k].id]

\* The ids of the started instances of a list, in order.
StartedIds(list) ==
  LET st == SelectSeq(list, LAMBDA i : i.started)
  IN  [k \in 1..Len(st) |-> st[k].id]

\* C1: in every reachable state of the controller, every instance whose
\* status is Running holds a multiplexer session handle.
C1_RunningHasSession ==
  \A k \in 1..Len(instances) :
    instances[k].status = Running => IsSome(instances[k].tmux_session)

\* C2 (as stated): in every reachable state an instance's branch is empty if
\* and only if its worktree handle is None.
C2_BranchIffHandle ==
  \A k \in 1..Len(instances) :
    (instances[k].branch = <<>>) <=> (instances[k].git_worktree = None)

\* C2 (amended): an instance that holds a worktree handle has a non-empty
\* branch, the branch of that handle; hence an empty branch means no handle.
C2_HandleHasBranch ==
  \A k \in 1..Len(instances) :
    IsSome(instances[k].git_worktree) =>
      /\ instances[k].branch = Unwrap(instances[k].git_worktree).branch
      /\ instances[k].branch # <<>>

\* An InstanceReady has just stored a worktree handle in an instance.
C2_Witness ==
  /\ last.op = "InstanceReady"
  /\ IsSome(last.pre)
  /\ Pre.git_worktree = None
  /\ IsSome(Cur.git_worktree)

\* The edges of the lifecycle state machine, with the operation of each.
LifecycleEdges ==
  { <<Loading, "InstanceReady", Running>>,
    <<Running, "pause", Paused>>,
    <<Paused, "resume", Running>>,
    <<Running, "kill", Ready>>,
    <<Running, "SessionDied", Ready>> }

\* C3: whenever a step changes the status of an instance that stays in the
\* list, the change is an edge of the lifecycle state machine taken by the
\* operation of that edge.
C3_LifecycleEdges ==
  [][\A i \in 1..Len(instances) : \A j \in 1..Len(instances') :
       (/\ instances[i].id = instances'[j].id
        /\ instances[i].status # instances'[j].status)
       => <<instances[i].status, last'.op, instances'[j].status>> \in LifecycleEdges
    ]_vars

BackgroundUpdates ==
  {"PreviewContent", "DiffComputed", "InstanceReady", "InstanceFailed",
   "SessionDied"}

\* C5: a step that processes a background update whose index is not below the
\* length of the list leaves the instances, the preview content, the diff
\* view, the pending prompts and the selection as they were.
C5_StaleIndexIgnored ==
  [][(/\ last'.op \in BackgroundUpdates
      /\ chan # <<>>
      /\ chan' = Tail(chan)
      /\ Head(chan).idx >= Len(instances))
     => UNCHANGED <<instances, preview, diff_view, pending_prompts, selected>>
    ]_vars

\* What a load after a save has to return: the started elements in order,
\* their persisted fields kept, their runtime handles None.
Reloaded(list) ==
  LET st == SelectSeq(list, LAMBDA i : i.started)
  IN  [k \in 1..Len(st) |->
         [st[k] EXCEPT !.tmux_session = None, !.git_worktree = None,
                       !.diff_stats = None]]

\* C6: once a list has been saved, loading the file returns exactly the
\* started elements of the list, in order, with the persisted fields kept and
\* the runtime handles None; the load puts exactly that in the list.
C6_SaveLoadRoundTrip ==
  /\ pc = "saved" => load_instances(file) = Reloaded(instances)
  /\ pc = "loaded" => instances = load_instances(file)

\* A saved list of two, the first started and holding handles, the second
\* not started: the load returns one element.
C6_Witness ==
  /\ pc = "saved"
  /\ Len(instances) = 2
  /\ instances[1].started
  /\ IsSome(instances[1].tmux_session)
  /\ ~instances[2].started
  /\ Len(load_instances(file)) = 1

\* C7: after startup, every loaded instance that was persisted as Running and
\* whose session could not be restored is Ready and not started, and the
\* controller is in its event loop.
C7_RestoreFailureDemotes ==
  last.op = "run_startup" =>
    /\ pc = "loop"
    /\ running
    /\ \A k \in last.aux :
         instances[k].status = Ready /\ ~instances[k].started

\* A startup in which the restore of a persisted Running instance failed.
C7_Witness ==
  /\ last.op = "run_startup"
  /\ last.aux # {}

\* C8: a step that processes SessionDied for an index inside the list turns a
\* Running instance into a Ready one without multiplexer handle and rewrites
\* the store from the new list; on an instance that is not Running it changes
\* nothing but the channel.
C8_SessionDied ==
  [][(last'.op = "SessionDied" /\ IsSome(last'.pre)) =>
       LET k == last'.idx + 1 IN
       IF instances[k].status = Running
       THEN /\ Len(instances') = Len(instances)
            /\ instances'[k].status = Ready
            /\ instances'[k].tmux_session = None
            /\ \A j \in (1..Len(instances)) \ {k} : instances'[j] = instances[j]
            /\ IsSome(file')
            /\ FileIds(file') = StartedIds(instances')
       ELSE UNCHANGED <<pc, ctl, workers, file, world, nextId, side>>
    ]_vars

\* SessionDied has just been processed for a Running instance.
C8_Witness ==
  /\ last.op = "SessionDied"
  /\ IsSome(last.pre)
  /\ Pre.status = Running
  /\ Cur.status = Ready

\* C9: after a successful pause of a Running instance that holds a worktree
\* handle, the instance is Paused without multiplexer handle, the session of
\* the handle it held is closed, its worktree directory is gone and its
\* branch exists; after a
\* successful resume of that paused instance (the handle still held), it is
\* Running with a multiplexer handle and its worktree directory exists again,
\* registered on the branch it had before.
C9_PauseResume ==
  /\ (last.op = "pause" /\ last.ok /\ IsSome(Pre.git_worktree)) =>
       LET wt == Unwrap(Pre.git_worktree) IN
       /\ Cur.status = Paused
       /\ Cur.tmux_session = None
       /\ IsSome(Pre.tmux_session) =>
            Unwrap(Pre.tmux_session).name \notin sessions
       /\ wt.dir \notin dirs
       /\ wt.branch \in branches
  /\ (last.op = "resume" /\ last.ok /\ IsSome(Pre.git_worktree)) =>
       LET wt == Unwrap(Pre.git_worktree) IN
       /\ Cur.status = Running
       /\ IsSome(Cur.tmux_session)
       /\ Unwrap(Cur.tmux_session).name \in sessions
       /\ wt.dir \in dirs
       /\ [dir |-> wt.dir, branch |-> Pre.branch] \in registered
       /\ Cur.branch = Pre.branch

\* A paused instance that holds its worktree handle has just been resumed.
C9_Witness ==
  /\ last.op = "resume"
  /\ last.ok
  /\ IsSome(Pre.git_worktree)
  /\ Pre.status = Paused
  /\ Cur.status = Running

\* C10: after a confirmed Kill of a Running instance that holds its worktree
\* handle has succeeded, its session is closed, its worktree directory and its
\* branch are gone, the instance is out of the list and instances.json has no
\* record of it.
C10_KillRemovesEverything ==
  (last.op = "kill" /\ last.ok /\ IsSome(last.pre)
     /\ Pre.status = Running /\ IsSome(Pre.git_worktree)) =>
    LET wt == Unwrap(Pre.git_worktree) IN
    /\ sanitize_name(Pre.title) \notin sessions
    /\ wt.dir \notin dirs
    /\ wt.branch \notin branches
    /\ \A k \in 1..Len(instances) : instances[k].id # Pre.id
    /\ IsSome(file)
    /\ \A k \in 1..Len(Unwrap(file)) : Unwrap(file)[k].id # Pre.id

\* C11: a prompt delivered while InstanceReady is processed for an index goes
\* to the instance that the new-session-with-prompt flow created for it.
C11_PromptOnlyToOwner ==
  (last.op = "InstanceReady" /\ IsSome(last.pre)) => last.aux \subseteq {Pre.id}

\* C16: no two instances of the controller's list have the same title.
C16_UniqueTitles ==
  \A i \in 1..Len(instances) : \A j \in 1..Len(instances) :
    i # j => instances[i].title # instances[j].title

\* The worktree handles held by the instances of the list.
HeldWorktrees ==
  {Unwrap(instances[k].git_worktree) :
     k \in {n \in 1..Len(instances) : IsSome(instances[n].git_worktree)}}

Calls(log) == [i \in 1..Len(log) |-> log[i].call]

AttachCalled == last.op = "attach" /\ "attach" \in {last.aux[i].call : i \in 1..Len(last.aux)}

\* The terminal as the next frame finds it after an AttachSession that
\* reached attach: alternate screen, raw mode, cleared. When a call on the
\* terminal fails App::run ends and no frame is drawn.
BackInTui == pc = "loop" => term.raw /\ term.alt /\ term.cleared

\* C12 as stated: on every AttachSession(idx) with idx valid the calls are
\* disable raw mode, leave the alternate screen, push the size of the real
\* terminal to the multiplexer session, enable raw mode, attach, in this
\* order; attach is not called in the alternate screen; after attach returns
\* the terminal is in the alternate screen, in raw mode and cleared before
\* the next frame.
C12_AttachProtocol ==
  last.op = "attach" =>
    LET c == Calls(last.aux)
    IN  /\ Len(c) >= 2
        /\ c[1] = "disable_raw_mode" /\ c[2] = "LeaveAlternateScreen"
        /\ AttachCalled =>
              /\ SubSeq(c, 1, 6) = <<"disable_raw_mode", "LeaveAlternateScreen",
                                     "size", "set_size", "enable_raw_mode",
                                     "attach">>
              /\ ~last.aux[6].alt /\ last.aux[6].raw
              /\ BackInTui

\* C12, amended: the same order, where the size is pushed exactly when the
\* attached instance has a session handle and the size of the terminal could
\* be read; without a handle, or without a size, enable raw mode follows the
\* size query directly. Attach is called outside the alternate screen in raw
\* mode, and afterwards the next frame finds the alternate screen, raw mode
\* and a cleared terminal.
C12_AttachProtocolWhenHandle ==
  last.op = "attach" =>
    LET c == Calls(last.aux)
        pushed == IsSome(Pre.tmux_session) /\ c[3] = "size"
        n == IF pushed THEN 6 ELSE 5
    IN  /\ Len(c) >= 2
        /\ c[1] = "disable_raw_mode" /\ c[2] = "LeaveAlternateScreen"
        /\ AttachCalled =>
              /\ c[3] \in {"size", "size_err"}
              /\ SubSeq(c, 4, n) =
                   (IF pushed THEN <<"set_size">> ELSE <<>>)
                   \o <<"enable_raw_mode", "attach">>
              /\ \A i \in 1..Len(c) : c[i] = "attach" => i = n
              /\ ~last.aux[n].alt /\ last.aux[n].raw
              /\ BackInTui

\* An attach to an instance with a handle has returned Ok, the size pushed.
C12_Witness ==
  /\ AttachCalled /\ last.ok /\ pc = "loop"
  /\ "set_size" \in {last.aux[i].call : i \in 1..Len(last.aux)}

\* ------------------------------------------------------------------ C14
\* The steps App::handle_key takes when a key arrives in an overlay state.
OverlayOps ==
  {"key", "char", "create", "confirm_other", "confirm_no", "kill", "delete",
   "push", "panic"}

OverlayKeyStep ==
  pc = "loop" /\ state \in {TextInput, Confirm, Help} /\ last'.op \in OverlayOps

\* A typed character is in the input at the place of the cursor.
CharInserted ==
  (last'.op = "char" /\ Len(Unwrap(text_input).input) < InputLimit) =>
    /\ IsSome(text_input')
    /\ \E c \in Chars :
         Unwrap(text_input').input =
           Insert(Unwrap(text_input).input, Unwrap(text_input).cursor_pos, c)
    /\ Unwrap(text_input').cursor_pos = Unwrap(text_input).cursor_pos + 1

CancellingKeys ==
  {key \in OverlayKeys :
     LET o == ConfirmationOverlay_handle_key(ConfirmationOverlay_new, key)
     IN  o.dismissed /\ ~o.confirmed}

ExecutedOps == {"kill", "delete", "push", "panic"}

ConfirmKeyStep ==
  /\ pc = "loop" /\ state = Confirm
  /\ last'.op \in {"confirm_other", "confirm_no"} \cup ExecutedOps

\* The operation that executes a pending action.
ExecutionOf(pending) ==
  CASE pending.kind = "KillSession" -> {"kill"}
    [] pending.kind = "DeleteSession" -> {"delete"}
    [] pending.kind = "PushSession" -> {"push", "panic"}

\* C15: with a Kill, Delete or Push confirmation open the pending action is
\* executed exactly on y or Y; n, N and Esc dismiss the dialog with the
\* instance list, the repository and instances.json unchanged; any other key
\* changes nothing at all; after a dismissal the state is Default and there
\* is no pending action and no dialog.
C15_ConfirmOnlyOnYes ==
  [][ConfirmKeyStep =>
       /\ ConfirmingKeys = {Key("Char", "y"), Key("Char", "Y")}
       /\ CancellingKeys = {Key("Char", "n"), Key("Char", "N"), Key("Esc", "")}
       /\ last'.op = "confirm_other" => UNCHANGED <<ctl, world, file>>
       /\ last'.op = "confirm_no" =>
            /\ UNCHANGED <<instances, selected, world, file, error>>
            /\ state' = Default
            /\ pending_action' = None /\ confirmation' = None
       /\ last'.op \in ExecutedOps =>
            /\ IsSome(pending_action)
            /\ last'.op \in ExecutionOf(Unwrap(pending_action))
            /\ last'.idx = Unwrap(pending_action).idx
            /\ state' = Default
            /\ pending_action' = None /\ confirmation' = None
            /\ (last'.op = "delete" /\ last'.idx < Len(instances)) =>
                  instances' = RemoveAt(instances, last'.idx + 1)
            /\ (last'.op = "kill" /\ last'.idx < Len(instances) /\ last'.ok) =>
                  instances' = RemoveAt(instances, last'.idx + 1)]_vars

\* A confirmed Kill has removed the only instance.
C15_Witness ==
  /\ last.op = "kill" /\ last.ok /\ IsSome(last.pre)
  /\ instances = <<>> /\ state = Default /\ pending_action = None

\* ------------------------------------------------------------------ C13
\* The call c of attach_interactive has returned.
Returned(c) == call > c \/ (call = c /\ main \in {"ok", "err"})

\* C13: once the operator has sent the single byte 17 to a call of
\* attach_interactive after its first 50 ms, the call eventually returns;
\* and whenever a call has returned Ok its stop flag is set, the session
\* holds a PTY opened by detach, not the one attached to, and attached is
\* false.
C13_CtrlQDetaches ==
  /\ \A c \in 1..MaxAttach : (ctrl_q = c) ~> Returned(c)
  /\ [](main = "ok" =>
          /\ call \in stop_flag
          /\ ptmx = Some(call)
          /\ ~attached)

\* ------------------------------------------------------------------ C18
\* C18: a poll of the daemon that reads instances.json while the controller
\* is saving it gets a complete text, the one before the save or the one
\* the save writes, never a part of one.
C18_NoTornRead == last.op = "poll" => ~last.aux.seen.torn

\* ------------------------------------------------------------------ C19
\* The stored instances a poll has to answer: Running, with auto_yes, and
\* with a pane that changed.
DueForYes ==
  IF file = None THEN {}
  ELSE {Unwrap(file)[k].id :
          k \in {j \in 1..Len(Unwrap(file)) :
                   /\ Unwrap(file)[j].status = StatusToJson(Running)
                   /\ Unwrap(file)[j].auto_yes
                   /\ sanitize_name(Unwrap(file)[j].title) \in updated}}

\* C19: a poll of the daemon that loaded the instances sends "y\n" to every
\* stored instance that is Running with auto_yes and whose pane changed, and
\* to no other instance.
C19_PollAnswers ==
  [][(last'.op = "poll" /\ last'.ok) => last'.aux.sent = DueForYes]_vars

\* ------------------------------------------------------------------ C20
\* C20: when stop_daemon has returned and there was a PID file, the recorded
\* process was sent the termination signal and the PID file is gone; without
\* a PID file it succeeds and signals nothing.
C20_StopRemovesPidFile ==
  last.op = "stop_daemon" =>
    IF last.aux.had_file
    THEN last.aux.signalled # {} /\ pid_file = None
    ELSE last.ok /\ last.aux.signalled = {}

\* ------------------------------------------------------------------ C21
\* C21: whenever the status of an instance changes and time has passed since
\* its updated_at, the step leaves it with a later updated_at. The handling
\* of InstanceReady is left out: it goes through restore_session, whose body
\* is not in the sources and may touch the instance.
C21_StatusChangeTouches ==
  [][\A k \in 1..Len(instances) :
       (/\ last'.op # "InstanceReady"
        /\ k <= Len(instances')
        /\ instances'[k].id = instances[k].id
        /\ instances'[k].status # instances[k].status
        /\ instances[k].updated_at < now)
       => instances'[k].updated_at > instances[k].updated_at]_vars

\* ------------------------------------------------------------------ C22
\* assert_eq!(input.input().len(), 32)
TitleLimit == 32

\* C22: while a session title is being entered the input never holds more
\* than 32 characters.
C22_TitleAtMost32 ==
  (state = TextInput /\ IsSome(text_input) /\ pending_instance_title = None) =>
    Len(Unwrap(text_input).input) <= TitleLimit
BranchEdge == {"a", "b", "0", "1", ".", "_", "-"}
BranchInner == BranchEdge \cup {"/"}

\* The name has only characters of [a-z0-9/_.-] and neither starts nor ends
\* with a slash.
BranchPattern(r) ==
  /\ r # <<>>
  /\ r[1] \in BranchEdge
  /\ r[Len(r)] \in BranchEdge
  /\ \A i \in 1..Len(r) : r[i] \in BranchInner

Sanitized == last.op = "sanitize_branch_name"

\* C24: for every title, sanitize_branch_name returns the empty name or a
\* name of characters of [a-z0-9/_.-] that neither starts nor ends with '/'.
C24_BranchNamePattern ==
  Sanitized =>
    \/ Unwrap(last.aux) = <<>>
    \/ BranchPattern(Unwrap(last.aux))

\* C25: sanitize_branch_name is idempotent: applied to its own result it
\* returns that result.
C25_SanitizeIdempotent ==
  (Sanitized /\ last.idx = 2) => Unwrap(last.aux) = Unwrap(last.pre)

\* The sanitizer was applied a second time, to its own result a-a.
C25_Witness ==
  /\ Sanitized
  /\ last.idx = 2
  /\ last.pre = Some(<<"a", "-", "a">>)


\* The threads of schedule_background_updates.
TickWorkers == {wk \in workers : wk.kind \in {"capture", "diff"}}

\* What is on the channel after the step and was not before it.
Posted == SubSeq(chan', Len(chan) + 1, Len(chan'))

\* C26: capture and diff threads are spawned only for a valid selected index
\* whose instance is Running and started; a capturer that finds no session
\* posts SessionDied for its index and nothing else, and one that finds the
\* session posts nothing or one PreviewContent for its index.
C26_TickAndCapturer ==
  [][/\ \A wk \in workers' \ workers :
          wk.kind \in {"capture", "diff"} =>
            /\ pc = "loop"
            /\ selected < Len(instances)
            /\ wk.idx = selected
            /\ instances[selected + 1].status = Running
            /\ instances[selected + 1].started
     /\ \A wk \in workers \ workers' :
          (wk.kind = "capture" /\ last'.op = "worker") =>
            /\ Len(chan') >= Len(chan)
            /\ SubSeq(chan', 1, Len(chan)) = chan
            /\ Len(Posted) <= 1
            /\ \A k \in 1..Len(Posted) : Posted[k].idx = wk.idx
            /\ IF sanitize_name(wk.title) \notin sessions
               THEN Len(Posted) = 1 /\ Posted[1].type = "SessionDied"
               ELSE \A k \in 1..Len(Posted) : Posted[k].type = "PreviewContent"]_vars

\* A capturer has just found its session gone and posted SessionDied.
C26_Witness ==
  /\ last.op = "worker"
  /\ chan # <<>>
  /\ chan[Len(chan)].type = "SessionDied"
  /\ TickWorkers = {}


\* The second fields of the entries of a log whose first field is kind.
Entries(log, kind) ==
  LET sel == SelectSeq(log, LAMBDA e : e[1] = kind)
  IN  [k \in 1..Len(sel) |-> sel[k][2]]

IsPrefix(a, b) == Len(a) <= Len(b) /\ SubSeq(b, 1, Len(a)) = a

\* TmuxSession::start has just returned.
StartReturned == poller = "start" /\ last.op = "start"

\* has-session first; kill-session second exactly when has-session succeeded,
\* and nowhere else, so before any PTY.
KillIffExists ==
  /\ cmds # <<>>
  /\ cmds[1][1] = "has-session"
  /\ (Len(cmds) >= 2 /\ cmds[2][1] = "kill-session") <=> (cmds[1][2] = "ok")
  /\ \A k \in 3..Len(cmds) : cmds[k][1] # "kill-session"

\* kill-session or the start of a PTY failed and ended the call.
StartFault == ~last.ok /\ last.aux \subseteq {"kill", "new_session", "attach"}

\* C27: start checks has-session first and issues kill-session exactly when
\* the check succeeded, before the new session; every call then opens exactly
\* two PTYs, new-session then attach-session, and keeps only the second; a
\* successful call leaves ptmx Some.
C27_StartProtocol ==
  StartReturned =>
    /\ KillIffExists
    /\ Entries(cmds, "pty") = <<"new-session", "attach-session">>
    /\ ptys = {2}
    /\ last.ok => ptmx = Some(2)

\* C27, amended: has-session first and kill-session exactly when it succeeded,
\* before the new session; unless kill-session or the start of a PTY fails,
\* which ends the call with no further PTY opened and none kept, exactly two
\* PTYs are opened, new-session then attach-session, only the second is kept
\* and it is in ptmx; a successful call leaves ptmx Some.
C27_StartProtocolUnlessFault ==
  StartReturned =>
    /\ KillIffExists
    /\ IF StartFault
       THEN /\ IsPrefix(Entries(cmds, "pty"), <<"new-session", "attach-session">>)
            /\ cmds[Len(cmds)][1] \in {"kill-session", "pty"}
            /\ ptys = {}
            /\ ptmx = None
       ELSE /\ Entries(cmds, "pty") = <<"new-session", "attach-session">>
            /\ ptys = {2}
            /\ ptmx = Some(2)
    /\ last.ok => ptmx = Some(2)

\* A start that found a session of its name, killed it, opened both PTYs and
\* returned Ok.
C27_Witness ==
  /\ StartReturned
  /\ last.ok
  /\ cmds[1] = <<"has-session", "ok">>
  /\ Entries(cmds, "pty") = <<"new-session", "attach-session">>
  /\ ptmx = Some(2)

\* has_updated has just returned Ok; last.pre is the content the call before
\* it captured, seen the content it captured itself.
HasUpdatedReturned == last.op = "has_updated" /\ last.ok

\* C28: has_updated returns true exactly when the content differs from the
\* content of the previous call (there being none on the first call) or holds
\* the program's attention string; afterwards the stored hash is the hash of
\* the content just captured.
C28_HasUpdated ==
  HasUpdatedReturned =>
    LET content == Unwrap(seen)
        differs == last.pre = None \/ Unwrap(last.pre) # content
    IN  /\ last.aux = {differs \/ has_ai_prompt(content, program)}
        /\ status_hash = Sha256(content)

\* The same content as in the call before and no attention string: false.
C28_Witness ==
  /\ HasUpdatedReturned
  /\ last.pre = seen
  /\ last.aux = {FALSE}

\* The caller is in the trust-prompt poll; it has left it.
InTrust == tpc \in {"trust", "poll", "keys"}
TrustOver == tpc \in {"idle", "failed"}

\* The poll has just ended.
PollReturned == last.op \in {"start", "create_instance"} /\ last.aux \subseteq {"trust", "poll", "keys"}

\* The capture-pane and send-keys entries of a log.
TrustLog(log) == SelectSeq(log, LAMBDA e : e[1] \in {"capture-pane", "send-keys"})

KeyEntries(ks) == [k \in 1..Len(ks) |-> <<"send-keys", ks[k]>>]

\* Captures that did not show the search string, then possibly one that did.
Searching(caps) ==
  \A k \in 1..Len(caps) : caps[k] = "found" => k = Len(caps)

\* C29: the poll ends without error, having sent the response keys exactly
\* once in order after the first capture with the trust string, or nothing.
C29_PollNeverFails ==
  PollReturned =>
    /\ last.ok
    /\ \/ Entries(cmds, "send-keys") = <<>>
       \/ Entries(cmds, "send-keys") = Unwrap(trust_prompt(program)).keys

\* C29, amended: the poll always ends, and without error unless a send-keys of
\* start fails, which ends it with the error and the later keys unsent. The
\* sleep starts at 100 ms, grows by 1.2 (to the millisecond below) and stays
\* at most 1000 ms. The poll stops at the first capture with the trust string
\* and sends the response keys once in order, or stops at the timeout having
\* sent nothing; for a program without a trust prompt it issues no command.
C29_PollUnlessSendFails ==
  /\ [](tpc \in {"poll", "keys"} => (interval >= 100 /\ interval <= 1000))
  /\ [][(tpc = "trust" /\ tpc' = "poll") => interval' = 100]_vars
  /\ [][(tpc = "poll" /\ tpc' = "poll") =>
          \/ interval' = 1000 /\ interval * 12 >= 1000 * 10
          \/ /\ interval' < 1000
             /\ interval' * 10 <= interval * 12
             /\ interval * 12 < (interval' + 1) * 10]_vars
  /\ [][(InTrust /\ TrustOver') =>
          LET log == TrustLog(cmds')
              caps == Entries(cmds', "capture-pane")
              sent == Entries(cmds', "send-keys")
              t == trust_prompt(program)
          IN  IF t = None
              THEN tpc' = "idle" /\ log = <<>>
              ELSE /\ Searching(caps)
                   /\ log = [k \in 1..Len(caps) |-> <<"capture-pane", caps[k]>>]
                              \o KeyEntries(sent)
                   /\ IF tpc = "poll"
                      THEN /\ tpc' = "idle"
                           /\ sent = <<>>
                           /\ elapsed >= Unwrap(t).timeout
                           /\ \A k \in 1..Len(caps) : caps[k] = "none"
                      ELSE /\ caps # <<>>
                           /\ caps[Len(caps)] = "found"
                           /\ IF tpc' = "idle"
                              THEN sent = Unwrap(t).keys
                              ELSE /\ poller = "start"
                                   /\ sent # <<>>
                                   /\ IsPrefix(sent, Unwrap(t).keys)]_vars
  /\ InTrust ~> TrustOver

\* The poll for aider saw the trust string after captures without it, sent d
\* and Enter and returned Ok.
C29_Witness ==
  /\ PollReturned
  /\ last.ok
  /\ program = "aider"
  /\ Len(Entries(cmds, "capture-pane")) >= 2
  /\ Entries(cmds, "send-keys") = <<"d", "Enter">>


\* The controller is in the new-with-prompt flow, at the title or the prompt.
InPromptFlow == pc = "loop" /\ state = TextInput /\ creating_with_prompt

\* A key handled by the text input (create is Enter that creates an instance).
TextKeyStep == InPromptFlow /\ last'.op \in {"key", "char", "create"}

\* C30: in the new-with-prompt flow a title is remembered only when it is the
\* non-empty text of the title input, and the controller then stays in
\* TextInput with a fresh empty input; an instance is created only by
\* submitting the second input, and then exactly one, with the remembered
\* title; every key that leaves the flow leaves Default, creating_with_prompt
\* false and no pending title, and unless it is that submission (so for an
\* empty title and for Esc at either step) it creates no instance.
C30_PromptFlow ==
  [][TextKeyStep =>
       /\ (pending_instance_title = None /\ pending_instance_title' # None) =>
            /\ pending_instance_title' = Some(Unwrap(text_input).input)
            /\ Unwrap(text_input).input # <<>>
            /\ state' = TextInput
            /\ creating_with_prompt'
            /\ IsSome(text_input')
            /\ Unwrap(text_input').input = <<>>
            /\ instances' = instances
       /\ instances' # instances =>
            /\ IsSome(pending_instance_title)
            /\ Len(instances') = Len(instances) + 1
            /\ SubSeq(instances', 1, Len(instances)) = instances
            /\ instances'[Len(instances')].title = Unwrap(pending_instance_title)
            /\ state' = Default
       /\ state' # TextInput =>
            /\ state' = Default
            /\ ~creating_with_prompt'
            /\ pending_instance_title' = None
            /\ text_input' = None
       /\ state' = TextInput =>
            /\ creating_with_prompt'
            /\ pending_instance_title = None \/ pending_instance_title' = pending_instance_title]_vars

\* The second input was submitted with a prompt: one more instance, the
\* prompt waiting for it, the controller back in Default.
C30_Witness ==
  /\ last.op = "create"
  /\ state = Default
  /\ ~creating_with_prompt
  /\ pending_instance_title = None
  /\ pending_prompts # NoPrompts
  /\ Len(instances) = 2


\* C31: whenever the list has items the selected index is below their number;
\* select_next from the last item selects item 0 and select_previous from item
\* 0 selects the last item.
C31_SelectionInRange ==
  /\ [](items > 0 => selected < items)
  /\ [][(last'.op = "select_next" /\ items > 0 /\ selected = items - 1)
          => selected' = 0]_vars
  /\ [][(last'.op = "select_previous" /\ items > 0 /\ selected = 0)
          => selected' = items - 1]_vars

\* The list shrank under a selection of its last item and the selection was
\* clamped to the new last item.
C31_Witness ==
  /\ last.op = "set_items"
  /\ last.aux = {3}
  /\ items = 2
  /\ selected = 1


\* C32: the scroll offset is never above the number of displayed lines less
\* one (0 for an empty pane), and a scroll_down that brings it to 0 leaves
\* scroll mode.
C32_ScrollInRange ==
  /\ [](scroll_offset >= 0 /\ scroll_offset <= max_scroll(displayed))
  /\ [][(last'.op = "scroll_down" /\ scroll_offset' = 0) => ~is_scrolling']_vars

\* In scroll mode over three lines of history, scrolled up past the top and
\* held at the last line.
C32_Witness ==
  /\ last.op = "scroll_up"
  /\ last.idx = 3
  /\ is_scrolling
  /\ Len(displayed) = 3
  /\ scroll_offset = 2

\* C40: outside scroll mode the displayed lines are the normal displayed last
\* set, however scroll mode was left.
C40_DisplayedIsNormal == ~is_scrolling => displayed = normal_content


\* The controller takes one message off the channel and applies it.
Applies == pc = "loop" /\ pc' = "loop" /\ chan # <<>> /\ chan' = Tail(chan)

\* C33: a background result changes or removes no instance but the one its
\* worker was dispatched for, and is shown in the panes only while that
\* instance is the selected one.
C33_ResultReachesItsInstance ==
  [][Applies =>
       LET m == Head(chan) IN
       /\ \A k \in 1..Len(instances) :
            instances[k].id # m.src =>
              \E j \in 1..Len(instances') : instances'[j] = instances[k]
       /\ views' # views =>
            /\ selected < Len(instances)
            /\ instances[selected + 1].id = m.src]_vars


\* The instance created as number i is in the list and Loading.
IsLoading(i) ==
  \E k \in 1..Len(instances) :
    instances[k].id = i /\ instances[k].status = Loading

\* C34: every instance that is Loading is eventually not Loading (Running,
\* Ready, or gone from the list).
C34_LoadingEnds ==
  \A i \in 1..MaxPairCreates : IsLoading(i) ~> ~IsLoading(i)


\* C35: a confirmed Kill, Delete or Push never indexes past the end of the
\* list, and the instance it acts on is the one whose title the confirmation
\* showed.
C35_ConfirmedActionHitsShown ==
  [][(state = Confirm /\ last'.op \in {"kill", "delete", "push", "panic"}) =>
       LET idx == Unwrap(pending_action).idx IN
       /\ last'.op # "panic"
       /\ idx < Len(instances) =>
            instances[idx + 1].title = Unwrap(confirmation)]_vars


\* C36: a step of a creation worker leaves alone every instance of the list
\* with another title: the directory of the worktree it holds still exists
\* and the multiplexer session it holds is still alive.
C36_CreateSparesOthers ==
  [][\A wk \in workers :
       (last'.op = "worker" /\ wk.kind = "create" /\ wk \notin workers') =>
         \A k \in 1..Len(instances) :
           LET inst == instances[k] IN
           (inst.id # wk.src /\ inst.title # wk.title) =>
             /\ \A wt \in inst.git_worktree :
                  wt.dir \in dirs => wt.dir \in dirs'
             /\ \A t \in inst.tmux_session :
                  t.name \in sessions => t.name \in sessions']_vars


\* A step in which a forwarder thread takes what the operator typed: the
\* caller is inside attach_interactive, where the controller does not read
\* its events, or the forwarder ends on the Ctrl-Q it has read.
ForwarderReads ==
  /\ stdin_bytes # <<>> /\ stdin_bytes' = <<>>
  /\ main \notin {"idle", "ok", "err"} \/ threads' # threads

\* C37: once a call of attach_interactive has returned, its forwarder thread
\* reads no further keystroke of the operator.
C37_NoThreadAfterReturn ==
  [][ForwarderReads =>
       \A t \in threads :
         (t.kind = "stdin" /\ t.st = "read") => ~Returned(t.call)]_vars


\* C38: when Instance::pause, resume or kill fails, the list holds the same
\* instances in the same places, the instance the call was made on has the
\* status it had, and the error strip shows an error.
C38_FailedOpKeepsInstance ==
  [][(last'.op \in {"pause", "resume", "kill"} /\ ~last'.ok) =>
       /\ Len(instances') = Len(instances)
       /\ \A k \in 1..Len(instances) : instances'[k].id = instances[k].id
       /\ instances'[last'.idx + 1].status = instances[last'.idx + 1].status
       /\ IsSome(error')]_vars

\* A kill of a Running instance has failed and the instance is in the list,
\* Running.
C38_Witness ==
  /\ last.op = "kill" /\ ~last.ok
  /\ last.idx < Len(instances)
  /\ instances[last.idx + 1].status = Running
  /\ error = Some("kill failed")


\* C39: the state of the controller and its overlays agree: TextInput
\* exactly when there is a text input, Confirm exactly when there is a
\* confirmation, a confirmation exactly when there is a pending action, Help
\* exactly when there is a help overlay, and a pending title only in
\* TextInput while creating with a prompt.
C39_StateMatchesOverlays ==
  /\ (state = TextInput) <=> IsSome(text_input)
  /\ (state = Confirm) <=> IsSome(confirmation)
  /\ IsSome(confirmation) <=> IsSome(pending_action)
  /\ (state = Help) <=> IsSome(help_overlay)
  /\ IsSome(pending_instance_title) => (state = TextInput /\ creating_with_prompt)

\* The title of a session with a prompt has been submitted and the input for
\* the prompt is open.
C39_Witness ==
  /\ pc = "loop"
  /\ state = TextInput
  /\ IsSome(text_input)
  /\ IsSome(pending_instance_title)
  /\ creating_with_prompt


====
